---------------------------- MODULE Spec2Model ----------------------------
(***************************************************************************)
(* A model of the diorama voxel ray tracer: cube intersection, the uniform *)
(* grid accelerator (build, closest-hit and any-hit DDA walks), the block  *)
(* editing main loop, the parallel renderer and the recursive integrator.  *)
(*                                                                         *)
(* Numbers.  Lengths are integers in units of 1e-4 world units (so the     *)
(* grid pad and the DDA eps are 1, ORIGIN_BIAS is 10 and a unit cube is    *)
(* 10000 wide).  An f32 value is modelled as an exact extended rational    *)
(* <<n, d>>: d > 0 is the finite value n/d in lowest terms, <<1,0>> is     *)
(* +inf, <<-1,0>> is -inf and <<0,0>> is NaN.  Rounding is not modelled.   *)
(***************************************************************************)
EXTENDS Integers, Sequences, FiniteSets, TLC

VARIABLES
    objects,    \* the scene vector: a sequence of boxes
    accel,      \* the uniform grid last built
    camera,     \* the orbit camera
    light,      \* the light
    builder,    \* the hotbar selection (BuildState)
    q,          \* the grid query in progress / the frame's locals
    dda,        \* the DDA walker's local variables
    pc,         \* position of the main thread
    workers,    \* render workers: band, position, local buffer
    rend,       \* render's locals: threads, rows_per, loop indices, results
    fb,         \* the framebuffer
    stack       \* cast_ray's call stack

vars == <<objects, accel, camera, light, builder, q, dda, pc, workers, rend, fb, stack>>

-----------------------------------------------------------------------------
(* Program constants, in model units. *)

UNIT == 10000          \* 1.0 world unit
PAD == 1               \* accel.rs: pad = 1e-4
EPS == 1               \* accel.rs: eps = 1e-4
ORIGIN_BIAS == 10      \* main.rs: ORIGIN_BIAS = 1e-3
PICK_EPS == 1          \* main.rs: neighbor_cell_center_from_face_hit eps
MAX_DEPTH == 3         \* main.rs: cast_ray returns the background if depth > 3

-----------------------------------------------------------------------------
(* Extended rationals standing for f32 values. *)

Sgn(x) == IF x > 0 THEN 1 ELSE IF x < 0 THEN -1 ELSE 0

Abs(x) == IF x < 0 THEN -x ELSE x

RECURSIVE GCD(_, _)
GCD(a, b) == IF b = 0 THEN a ELSE GCD(b, a % b)

Norm(n, d) ==
    IF d = 0 THEN <<Sgn(n), 0>>
    ELSE LET g == GCD(Abs(n), Abs(d))
             s == Sgn(d)
         IN  <<(s * n) \div g, (s * d) \div g>>

FInt(k) == <<k, 1>>
FInf == <<1, 0>>
FNaN == <<0, 0>>
FZero == <<0, 1>>

IsNaN(a) == a = FNaN
IsFinite(a) == a[2] > 0

FLt(a, b) ==
    /\ ~IsNaN(a)
    /\ ~IsNaN(b)
    /\ IF a[2] = 0 /\ b[2] = 0 THEN a[1] < b[1]
       ELSE a[1] * b[2] < b[1] * a[2]

FLe(a, b) ==
    /\ ~IsNaN(a)
    /\ ~IsNaN(b)
    /\ IF a[2] = 0 /\ b[2] = 0 THEN a[1] <= b[1]
       ELSE a[1] * b[2] <= b[1] * a[2]

FGt(a, b) == FLt(b, a)
FGe(a, b) == FLe(b, a)
FEq(a, b) == ~IsNaN(a) /\ a = b

\* f32::min / f32::max: a NaN operand is ignored
FMin(a, b) == IF IsNaN(a) THEN b ELSE IF IsNaN(b) THEN a
              ELSE IF FLt(b, a) THEN b ELSE a
FMax(a, b) == IF IsNaN(a) THEN b ELSE IF IsNaN(b) THEN a
              ELSE IF FLt(a, b) THEN b ELSE a

FNeg(a) == <<-a[1], a[2]>>

FAdd(a, b) ==
    IF IsNaN(a) \/ IsNaN(b) THEN FNaN
    ELSE IF a[2] = 0 /\ b[2] = 0 THEN (IF a[1] = b[1] THEN a ELSE FNaN)
    ELSE IF a[2] = 0 THEN a
    ELSE IF b[2] = 0 THEN b
    ELSE Norm(a[1] * b[2] + b[1] * a[2], a[2] * b[2])

FSub(a, b) == FAdd(a, FNeg(b))

\* k * a for an integer k
FScale(k, a) ==
    IF a[2] = 0 THEN <<Sgn(k) * a[1], 0>>
    ELSE Norm(k * a[1], a[2])

\* a / k for an integer k (k = 0: IEEE division by +0.0)
FDiv(a, k) ==
    IF IsNaN(a) THEN FNaN
    ELSE IF a[2] = 0 THEN (IF k = 0 THEN a ELSE <<Sgn(k) * a[1], 0>>)
    ELSE Norm(a[1], a[2] * k)

\* a * (1.0 / k): 1.0/0.0 is +inf, and 0 * inf is NaN
TimesInv(a, k) ==
    IF IsNaN(a) THEN FNaN
    ELSE IF k = 0 THEN <<Sgn(a[1]), 0>>
    ELSE FDiv(a, k)

\* floor(a) as i32: NaN casts to 0 (infinities do not occur where this is used)
FFloorI32(a) == IF a[2] = 0 THEN 0 ELSE a[1] \div a[2]

Clamp(x, lo, hi) == IF x < lo THEN lo ELSE IF x > hi THEN hi ELSE x

Axes == 1..3

V3(x, y, z) == <<FInt(x), FInt(y), FInt(z)>>

\* ro + rd * t
PointAt(ro, rd, t) == [a \in Axes |-> FAdd(ro[a], FScale(rd[a], t))]


-----------------------------------------------------------------------------
(* Materials, textures and the palette (main.rs, palette.rs, texture.rs).  *)
(* Albedo channels, alpha, luminance and thresholds are in percent.  The   *)
(* image files are not part of the sources: a texture is a small texel     *)
(* array, each texel a luminance and an alpha.                             *)

Material(albedo, ri) == [albedo |-> albedo, refractive_index |-> ri]

MaterialBlack == Material(<<0, 0, 0, 0>>, 0)

Texel(lum, a) == [lum |-> lum, a |-> a]

Texture(w, h, px) == [width |-> w, height |-> h, pixels |-> px]

TexOpaque == Texture(1, 1, <<Texel(60, 100)>>)
TexGlass == Texture(2, 1, <<Texel(80, 0), Texel(80, 100)>>)
TexLeaves == Texture(2, 1, <<Texel(0, 100), Texel(50, 100)>>)

FaceStyle(tex, style, threshold) ==
    [tex |-> tex, style |-> style, threshold |-> threshold]

\* CubeTemplate constructors: the same FaceStyle on all six faces
with_same_texture(mat, tex) ==
    [material |-> mat,
     face_textures |-> [f \in 1..6 |-> FaceStyle(tex, "Normal", 0)]]

with_same_texture_image_alpha_window(mat, tex, th) ==
    [material |-> mat,
     face_textures |-> [f \in 1..6 |-> FaceStyle(tex, "ImageAlphaWindow", th)]]

with_same_texture_tinted_black_transparent(mat, tex, th) ==
    [material |-> mat,
     face_textures |->
        [f \in 1..6 |-> FaceStyle(tex, "GrayscaleTintBlackTransparent", th)]]

\* CubeTemplate::with_top_bottom_sides: Normal style on every face
with_top_bottom_sides(mat, top, bottom, side) ==
    [material |-> mat,
     face_textures |->
        [f \in 1..6 |-> FaceStyle(IF f = 3 THEN top ELSE IF f = 4 THEN bottom ELSE side,
                                  "Normal", 0)]]

\* The palette main() fills (lines 389-431)
PaletteChars == {"X", "D", "L", "P", "G", "l", "H", "-", "_"}

Palette ==
    [ch \in PaletteChars |->
        CASE ch = "X" -> with_top_bottom_sides(Material(<<95, 5, 0, 0>>, 0),
                                               TexOpaque, TexOpaque, TexOpaque)
          [] ch = "D" -> with_same_texture(Material(<<98, 2, 0, 0>>, 0), TexOpaque)
          [] ch = "L" -> with_top_bottom_sides(Material(<<92, 8, 0, 0>>, 0),
                                               TexOpaque, TexOpaque, TexOpaque)
          [] ch \in {"P", "-", "_"} ->
                with_same_texture(Material(<<90, 10, 0, 0>>, 0), TexOpaque)
          [] ch = "G" -> with_same_texture_image_alpha_window(
                            Material(<<80, 15, 6, 0>>, 150), TexGlass, 5)
          [] ch = "l" -> with_same_texture_tinted_black_transparent(
                            Material(<<92, 8, 0, 0>>, 0), TexLeaves, 5)
          [] ch = "H" -> with_same_texture(Material(<<80, 10, 20, 5>>, 131), TexOpaque)]

\* Palette::get: [some |-> FALSE] is None
palette_get(ch) ==
    IF ch \in PaletteChars THEN [some |-> TRUE, tpl |-> Palette[ch]]
    ELSE [some |-> FALSE]

\* Texture::sample_clamp_rgba: half-texel inset, then nearest texel
sample_clamp_rgba(tex, u, v) ==
    LET w == tex.width
        h == tex.height
        lo_u == Norm(1, 2 * w)
        hi_u == Norm(2 * w - 1, 2 * w)
        lo_v == Norm(1, 2 * h)
        hi_v == Norm(2 * h - 1, 2 * h)
        uc == IF FLt(u, lo_u) THEN lo_u ELSE IF FGt(u, hi_u) THEN hi_u ELSE u
        vc == IF FLt(v, lo_v) THEN lo_v ELSE IF FGt(v, hi_v) THEN hi_v ELSE v
        sx == FSub(FScale(w, uc), Norm(1, 2))
        sy == FSub(FScale(h, vc), Norm(1, 2))
        xi == Clamp(FFloorI32(sx), 0, w - 1)
        yi == Clamp(FFloorI32(sy), 0, h - 1)
    IN  tex.pixels[yi * w + xi + 1]

\* sample_with_style in which a window texel at or below the threshold is cut
\* out like a cutout texel, and a texel above it is fully covered
StyleWindowAsCutout(c, style, threshold) ==
    IF style \in {"Normal", "GrayscaleTint"} THEN [hit |-> TRUE, cov |-> 100]
    ELSE IF style \in {"BlackIsTransparent", "GrayscaleTintBlackTransparent"}
    THEN (IF c.lum <= threshold THEN [hit |-> FALSE, cov |-> 0]
          ELSE [hit |-> TRUE, cov |-> 100])
    ELSE (IF c.a <= threshold THEN [hit |-> FALSE, cov |-> 0]
          ELSE [hit |-> TRUE, cov |-> 100])

\* cube.rs sample_with_style, given the sampled texel c: hit = FALSE is None,
\* else the coverage (percent)
StyleOf(c, style, threshold) ==
    CASE style \in {"Normal", "GrayscaleTint"} ->
            [hit |-> TRUE, cov |-> 100]
      [] style \in {"BlackIsTransparent", "GrayscaleTintBlackTransparent"} ->
            IF c.lum <= threshold THEN [hit |-> FALSE, cov |-> 0]
            ELSE [hit |-> TRUE, cov |-> 100]
      [] style \in {"ImageAlphaCutout", "GrayscaleTintImageAlphaCutout"} ->
            IF c.a <= threshold THEN [hit |-> FALSE, cov |-> 0]
            ELSE [hit |-> TRUE, cov |-> 100]
      [] style \in {"ImageAlphaWindow", "GrayscaleTintImageAlphaWindow"} ->
            [hit |-> TRUE, cov |-> IF c.a <= threshold THEN 0 ELSE c.a]

sample_with_style(tex, u, v, style, threshold) ==
    StyleOf(sample_clamp_rgba(tex, u, v), style, threshold)

-----------------------------------------------------------------------------
(* Cube (cube.rs) and the Intersect record (ray_intersect.rs). *)

\* Option values
None == [some |-> FALSE]
Some(x) == [some |-> TRUE, val |-> x]

NoFaces == [f \in 1..6 |-> [style |-> "None"]]

\* Cube::from_center_size; centre and size in model units, half = size / 2
from_center_size(center, size, material) ==
    [min |-> [a \in Axes |-> center[a] - size[a] \div 2],
     max |-> [a \in Axes |-> center[a] + size[a] \div 2],
     material |-> material,
     face_textures |-> NoFaces]

\* build.rs make_block_from_palette
make_block_from_palette(center, cube_size, tpl) ==
    [from_center_size(center, cube_size, tpl.material)
        EXCEPT !.face_textures = tpl.face_textures]

\* Intersect::empty
IntersectEmpty ==
    [is_intersecting |-> FALSE, point |-> V3(0, 0, 0), normal |-> <<0, 0, 0>>,
     distance |-> FZero, material |-> MaterialBlack, coverage |-> 0,
     object_index |-> None]

\* Intersect::with_coverage: the object index is not set
with_coverage(point, normal, distance, material, coverage) ==
    [is_intersecting |-> TRUE, point |-> point, normal |-> normal,
     distance |-> distance, material |-> material,
     coverage |-> Clamp(coverage, 0, 100), object_index |-> None]

\* Face order: 1 PosX, 2 NegX, 3 PosY, 4 NegY, 5 PosZ, 6 NegZ
FaceNormal(face) ==
    CASE face = 1 -> <<1, 0, 0>>  [] face = 2 -> <<-1, 0, 0>>
      [] face = 3 -> <<0, 1, 0>>  [] face = 4 -> <<0, -1, 0>>
      [] face = 5 -> <<0, 0, 1>>  [] face = 6 -> <<0, 0, -1>>

\* cube.rs lines 151-158: the UV pair of a face at point p, before clamping
RawUV(c, face, p) ==
    LET lo(a) == FDiv(FSub(p[a], FInt(c.min[a])), c.max[a] - c.min[a])
        hi(a) == FDiv(FSub(FInt(c.max[a]), p[a]), c.max[a] - c.min[a])
    IN  CASE face = 1 -> <<lo(3), hi(2)>>
          [] face = 2 -> <<hi(3), hi(2)>>
          [] face = 3 -> <<lo(1), lo(3)>>
          [] face = 4 -> <<lo(1), hi(3)>>
          [] face = 5 -> <<lo(1), hi(2)>>
          [] face = 6 -> <<hi(1), hi(2)>>

\* u.clamp(tiny, 1 - tiny) with tiny = 1e-6; x < 1e-6 and x > 1 - 1e-6 are
\* decided by division, without large products
ClampTiny(x) ==
    IF x[1] < (x[2] + 999999) \div 1000000 THEN Norm(1, 1000000)
    ELSE IF x[2] - x[1] < (x[2] + 999999) \div 1000000 THEN Norm(999999, 1000000)
    ELSE x

\* cube.rs lines 151-164
FaceUV(c, face, p) == [k \in 1..2 |-> ClampTiny(RawUV(c, face, p)[k])]

FMin3(v) == FMin(FMin(v[1], v[2]), v[3])
FMax3(v) == FMax(FMax(v[1], v[2]), v[3])

\* cube.rs lines 112-122: per axis, the smaller and the larger slab time
SlabMins(c, ro, rd) ==
    [a \in Axes |-> FMin(TimesInv(FSub(FInt(c.min[a]), ro[a]), rd[a]),
                         TimesInv(FSub(FInt(c.max[a]), ro[a]), rd[a]))]

SlabMaxs(c, ro, rd) ==
    [a \in Axes |-> FMax(TimesInv(FSub(FInt(c.min[a]), ro[a]), rd[a]),
                         TimesInv(FSub(FInt(c.max[a]), ro[a]), rd[a]))]

\* Variant of the face selection with the ties taken in the order Z, Y, X
PickFaceZFirst(t_enter, tmin, rd) ==
    IF FEq(t_enter, tmin[3]) THEN (IF rd[3] > 0 THEN 6 ELSE 5)
    ELSE IF FEq(t_enter, tmin[2]) THEN (IF rd[2] > 0 THEN 4 ELSE 3)
    ELSE (IF rd[1] > 0 THEN 2 ELSE 1)

\* cube.rs lines 134-140: the face, chosen from the entry time
PickFace(t_enter, tmin, rd) ==
    IF FEq(t_enter, tmin[1]) \/ (FGt(tmin[1], tmin[2]) /\ FGt(tmin[1], tmin[3]))
    THEN (IF rd[1] > 0 THEN 2 ELSE 1)
    ELSE IF FEq(t_enter, tmin[2]) \/ FGt(tmin[2], tmin[3])
    THEN (IF rd[2] > 0 THEN 4 ELSE 3)
    ELSE (IF rd[3] > 0 THEN 6 ELSE 5)

SampleLayer(layer, uv) ==
    sample_with_style(layer.tex, uv[1], uv[2], layer.style, layer.threshold)

\* cube.rs lines 166-177: a None sample is a miss, Some gives the coverage
StyledHit(c, p, face, t_hit, s) ==
    IF ~s.hit THEN IntersectEmpty
    ELSE with_coverage(p, FaceNormal(face), t_hit, c.material, s.cov)

CubeShade(c, p, face, t_hit) ==
    IF c.face_textures[face].style = "None"
    THEN with_coverage(p, FaceNormal(face), t_hit, c.material, 100)
    ELSE StyledHit(c, p, face, t_hit, SampleLayer(c.face_textures[face], FaceUV(c, face, p)))

\* cube.rs lines 130-133
CubeHitT(c, ro, rd, face, t_hit) ==
    IF ~IsFinite(t_hit) THEN IntersectEmpty
    ELSE CubeShade(c, PointAt(ro, rd, t_hit), face, t_hit)

\* Variant of the hit distance that is the entry time from inside as well
CubeHitAtEntry(c, ro, rd, tmin, t_enter, t_exit) ==
    IF FLt(t_exit, FZero) \/ FGt(t_enter, t_exit) THEN IntersectEmpty
    ELSE CubeHitT(c, ro, rd, PickFace(t_enter, tmin, rd), t_enter)

\* cube.rs lines 127-129
CubeHitAt(c, ro, rd, tmin, t_enter, t_exit) ==
    IF FLt(t_exit, FZero) \/ FGt(t_enter, t_exit) THEN IntersectEmpty
    ELSE CubeHitT(c, ro, rd, PickFace(t_enter, tmin, rd),
                  IF FGt(t_enter, FZero) THEN t_enter ELSE t_exit)

CubeSlabs(c, ro, rd, tmin, tmax) == CubeHitAt(c, ro, rd, tmin, FMax3(tmin), FMin3(tmax))

\* Cube::ray_intersect (slab test, face selection, styled sampling)
ray_intersect(c, ro, rd) == CubeSlabs(c, ro, rd, SlabMins(c, ro, rd), SlabMaxs(c, ro, rd))

\* RayIntersect::aabb for a cube
aabb(c) == <<c.min, c.max>>

-----------------------------------------------------------------------------
(* The uniform grid (accel.rs). *)

\* Aabb::union folded over the scene, then padded (build, lines 52-65)
MinOf(S) == CHOOSE x \in S : \A y \in S : x <= y
MaxOf(S) == CHOOSE x \in S : \A y \in S : x >= y

SceneBounds(objs) ==
    [min |-> [a \in Axes |-> MinOf({aabb(objs[i])[1][a] : i \in 1..Len(objs)}) - PAD],
     max |-> [a \in Axes |-> MaxOf({aabb(objs[i])[2][a] : i \in 1..Len(objs)}) + PAD]]

CeilDiv(n, d) == -((-n) \div d)

MaxInt(a, b) == IF a > b THEN a ELSE b
MinInt(a, b) == IF a < b THEN a ELSE b

\* lines 68-73: ceil(ext / desired_cell_size).max(1) per axis
GridDims(bounds, desired_cell_size) ==
    [a \in Axes |-> MaxInt(CeilDiv(bounds.max[a] - bounds.min[a], desired_cell_size), 1)]

\* cell_index (lines 101-103), 0-based
cell_index(dims, ix, iy, iz) == (iz * dims[2] + iy) * dims[1] + ix

\* floor((x - min) / cell_size) as i32, with cell_size = ext / dims
CellCoord(x, bmin, ext, dims) == FFloorI32(FDiv(FScale(dims, FSub(x, FInt(bmin))), ext))

\* The index range of one box on one axis (lines 81-90), clamped to the grid
BoxRange(c, bounds, dims, a) ==
    MaxInt(CellCoord(FInt(aabb(c)[1][a]), bounds.min[a],
                     bounds.max[a] - bounds.min[a], dims[a]), 0)
    ..
    MinInt(CellCoord(FInt(aabb(c)[2][a]), bounds.min[a],
                     bounds.max[a] - bounds.min[a], dims[a]), dims[a] - 1)

\* lines 88-95: the box is pushed into the cell with 0-based index k
Covers(c, bounds, dims, k) ==
    \E ix \in BoxRange(c, bounds, dims, 1),
       iy \in BoxRange(c, bounds, dims, 2),
       iz \in BoxRange(c, bounds, dims, 3) :
         cell_index(dims, ix, iy, iz) = k

\* lines 74-99.  cells[k + 1] is the code's cells[k]; a cell lists 0-based object
\* indices in the order the outer loop pushed them.
BuildGrid(objs, bounds, dims) ==
    [bounds |-> bounds,
     dims |-> dims,
     cell_size |-> [a \in Axes |-> Norm(bounds.max[a] - bounds.min[a], dims[a])],
     cells |-> [k \in 1..(dims[1] * dims[2] * dims[3]) |->
                  SelectSeq([j \in 1..Len(objs) |-> j - 1],
                            LAMBDA i : Covers(objs[i + 1], bounds, dims, k - 1))]]

\* build over no object: the bounds stay (+inf, -inf), the extent is -inf, the
\* casts of ceil(-inf) saturate and .max(1) makes the dims 1, so there is one
\* empty cell of size -inf
EmptyGrid ==
    [bounds |-> [min |-> [a \in Axes |-> FInf], max |-> [a \in Axes |-> FNeg(FInf)]],
     dims |-> <<1, 1, 1>>,
     cell_size |-> [a \in Axes |-> FNeg(FInf)],
     cells |-> << <<>> >>]

\* UniformGridAccel::build
build(objs, desired_cell_size) ==
    IF objs = <<>> THEN EmptyGrid
    ELSE BuildGrid(objs, SceneBounds(objs), GridDims(SceneBounds(objs), desired_cell_size))

\* One axis of Aabb::intersect_ray: the two plane times, swapped into order
OrderPair(t1, t2) == IF FGt(t1, t2) THEN <<t2, t1>> ELSE <<t1, t2>>

SlabPair(b, ro, rd, a) ==
    OrderPair(TimesInv(FSub(FInt(b.min[a]), ro[a]), rd[a]),
              TimesInv(FSub(FInt(b.max[a]), ro[a]), rd[a]))

NoInterval == [hit |-> FALSE, t1 |-> FZero, t2 |-> FZero]

Interval(p) == [hit |-> TRUE, t1 |-> p[1], t2 |-> p[2]]

\* lines 26-28 and 34-36: reject, or narrow (t1, t2) by the next axis
Narrow(cur, ax) ==
    IF ~cur.hit THEN cur
    ELSE IF FGt(cur.t1, ax[2]) \/ FGt(ax[1], cur.t2) THEN NoInterval
    ELSE [hit |-> TRUE,
          t1 |-> IF FGt(ax[1], cur.t1) THEN ax[1] ELSE cur.t1,
          t2 |-> IF FLt(ax[2], cur.t2) THEN ax[2] ELSE cur.t2]

\* Aabb::intersect_ray (lines 15-39): hit = FALSE is None
intersect_ray(b, ro, rd) ==
    Narrow(Narrow(Interval(SlabPair(b, ro, rd, 1)), SlabPair(b, ro, rd, 2)),
           SlabPair(b, ro, rd, 3))

\* The walker's set-up, shared by trace (lines 107-142) and occluded (185-214)
DdaDone(res, occ) ==
    [status |-> "done", best |-> res, occluded |-> occ, visited |-> 0]

\* next_x = bounds.min.x + (ix + (step_x > 0) as i32) as f32 * cell_size.x
NextWall(g, cell, rd, a) ==
    FAdd(FInt(g.bounds.min[a]),
         FScale(cell[a] + (IF rd[a] > 0 THEN 1 ELSE 0), g.cell_size[a]))

DdaState(g, rd, t_enter, t_exit, pos, cell) ==
    [status |-> "run",
     cell |-> cell,
     step |-> [a \in Axes |-> Sgn(rd[a])],
     t_enter |-> t_enter,
     t_exit |-> t_exit,
     t_max |-> [a \in Axes |->
                  IF rd[a] # 0
                  THEN FAdd(t_enter, FDiv(FSub(NextWall(g, cell, rd, a), pos[a]), rd[a]))
                  ELSE FInf],
     t_delta |-> [a \in Axes |->
                  IF rd[a] # 0 THEN FDiv(g.cell_size[a], Abs(rd[a])) ELSE FInf],
     best |-> IntersectEmpty,
     best_t |-> FInf,
     occluded |-> FALSE,
     visited |-> 0]

\* the start cell: floor((pos - bounds.min) / cell_size), clamped into the grid
DdaCell(g, rd, t_enter, t_exit, pos) ==
    DdaState(g, rd, t_enter, t_exit, pos,
             [a \in Axes |->
                 Clamp(CellCoord(pos[a], g.bounds.min[a],
                                 g.bounds.max[a] - g.bounds.min[a], g.dims[a]),
                       0, g.dims[a] - 1)])

DdaAt(g, ro, rd, t_enter, t_exit) ==
    DdaCell(g, rd, t_enter, t_exit, PointAt(ro, rd, t_enter))

DdaEnter(g, ro, rd, r) ==
    IF ~r.hit THEN DdaDone(IntersectEmpty, FALSE)
    ELSE IF FLt(r.t2, FZero) THEN DdaDone(IntersectEmpty, FALSE)
    ELSE DdaAt(g, ro, rd, IF FLt(r.t1, FZero) THEN FZero ELSE r.t1, r.t2)

DdaSetup(g, ro, rd) == DdaEnter(g, ro, rd, intersect_ray(g.bounds, ro, rd))

\* Variant of the choice of axis that never takes Z
StepAxisXY(tm) == IF FLt(tm[1], tm[2]) THEN 1 ELSE 2

\* Lines 160-177 / 228-245: the axis with the smallest tMax
StepAxis(tm) ==
    IF FLt(tm[1], tm[2])
    THEN (IF FLt(tm[1], tm[3]) THEN 1 ELSE 3)
    ELSE (IF FLt(tm[2], tm[3]) THEN 2 ELSE 3)

\* if t_enter > t_exit { break; }
DdaEntered(moved) ==
    IF FGt(moved.t_enter, moved.t_exit) THEN [moved EXCEPT !.status = "done"] ELSE moved

\* step the cell on that axis; leaving the grid ends the walk
DdaMove(g, st, axis) ==
    IF st.cell[axis] + st.step[axis] < 0 \/ st.cell[axis] + st.step[axis] >= g.dims[axis]
    THEN [st EXCEPT !.status = "done", !.cell[axis] = @ + st.step[axis]]
    ELSE DdaEntered([st EXCEPT !.cell[axis] = @ + st.step[axis],
                               !.t_enter = st.t_max[axis],
                               !.t_max[axis] = FAdd(@, st.t_delta[axis])])

DdaAdvance(g, st) == DdaMove(g, st, StepAxis(st.t_max))

CellList(g, st) == g.cells[cell_index(g.dims, st.cell[1], st.cell[2], st.cell[3]) + 1]

CellExit(st) == FMin3(st.t_max)

\* Variant of the comparison in which a hit as near as best replaces it
CloserOrEqual(i, t_enter, acc) ==
    IF /\ i.is_intersecting
       /\ FGe(i.distance, FSub(t_enter, FInt(EPS)))
       /\ FLe(i.distance, acc.best_t)
    THEN [best |-> i, best_t |-> i.distance]
    ELSE acc

\* trace, lines 148-152: the hit replaces best when accepted
Closer(i, t_enter, acc) ==
    IF /\ i.is_intersecting
       /\ FGe(i.distance, FSub(t_enter, FInt(EPS)))
       /\ FLt(i.distance, acc.best_t)
    THEN [best |-> i, best_t |-> i.distance]
    ELSE acc

\* trace, lines 147-153: the closest accepted hit among the cell's objects
RECURSIVE TraceCell(_, _, _, _, _, _, _)
TraceCell(list, k, objs, ro, rd, st, acc) ==
    IF k > Len(list) THEN acc
    ELSE TraceCell(list, k + 1, objs, ro, rd, st,
                   Closer(ray_intersect(objs[list[k] + 1], ro, rd), st.t_enter, acc))

TraceFound(st, found) ==
    [st EXCEPT !.best = found.best, !.best_t = found.best_t, !.visited = @ + 1]

\* lines 155-178: stop if the hit lies before the cell's exit, else advance
TraceSeen(g, seen) ==
    IF FLe(seen.best_t, CellExit(seen)) THEN [seen EXCEPT !.status = "done"]
    ELSE DdaAdvance(g, seen)

\* One iteration of trace's loop (lines 144-178)
TraceStep(g, objs, ro, rd, st) ==
    TraceSeen(g, TraceFound(st, TraceCell(CellList(g, st), 1, objs, ro, rd, st,
                                          [best |-> st.best, best_t |-> st.best_t])))

\* Variant of the any-hit test without the far end of the window
BlocksBeyond(i, max_t) ==
    /\ i.is_intersecting
    /\ FGt(i.distance, FInt(EPS))

\* occluded, line 220
Blocks(i, max_t) ==
    /\ i.is_intersecting
    /\ FGt(i.distance, FInt(EPS))
    /\ FLt(i.distance, max_t)

\* occluded, lines 218-223: some object of the cell is hit within (eps, max_t)
OccludedCell(list, objs, ro, rd, max_t) ==
    \E k \in 1..Len(list) : Blocks(ray_intersect(objs[list[k] + 1], ro, rd), max_t)

OccludedSeen(g, objs, ro, rd, max_t, seen) ==
    IF OccludedCell(CellList(g, seen), objs, ro, rd, max_t)
    THEN [seen EXCEPT !.status = "done", !.occluded = TRUE]
    ELSE IF FGe(CellExit(seen), max_t) THEN [seen EXCEPT !.status = "done"]
    ELSE DdaAdvance(g, seen)

\* One iteration of occluded's loop (lines 216-246)
OccludedStep(g, objs, ro, rd, max_t, st) ==
    OccludedSeen(g, objs, ro, rd, max_t, [st EXCEPT !.visited = @ + 1])

\* The whole calls, for callers that use the result in one step
RECURSIVE TraceRun(_, _, _, _, _)
TraceRun(g, objs, ro, rd, st) ==
    IF st.status = "done" THEN st.best
    ELSE TraceRun(g, objs, ro, rd, TraceStep(g, objs, ro, rd, st))

trace(g, ro, rd, objs) == TraceRun(g, objs, ro, rd, DdaSetup(g, ro, rd))

RECURSIVE OccludedRun(_, _, _, _, _, _)
OccludedRun(g, objs, ro, rd, max_t, st) ==
    IF st.status = "done" THEN st.occluded
    ELSE OccludedRun(g, objs, ro, rd, max_t, OccludedStep(g, objs, ro, rd, max_t, st))

occluded(g, ro, rd, max_t, objs) ==
    OccludedRun(g, objs, ro, rd, max_t, DdaSetup(g, ro, rd))

-----------------------------------------------------------------------------
(* The scene loader (scene.rs) and block placement (main.rs, build.rs). *)

CubeSize == <<UNIT, UNIT, UNIT>>

\* scene::default_params as main() adjusts it (lines 434-439): no gap, origin 0,
\* y0 = -0.5, y_step = 1
SceneParams ==
    [cube_size |-> CubeSize, origin |-> <<0, 0, 0>>, y0 |-> -(UNIT \div 2),
     y_step |-> UNIT, any_non_whitespace_is_solid |-> FALSE,
     solid_chars |-> {"X", "_", "-"}]

\* let default_mat = stone (main.rs 389, 441)
DefaultMaterial == Material(<<90, 10, 0, 0>>, 0)

\* Slab::from_block_center_size: the lower or the upper half of the cell
from_block_center_size(center, size, half, material) ==
    [min |-> [a \in Axes |-> IF a = 2 /\ half = "Top" THEN center[a]
                             ELSE center[a] - size[a] \div 2],
     max |-> [a \in Axes |-> IF a = 2 /\ half = "Bottom" THEN center[a]
                             ELSE center[a] + size[a] \div 2],
     half |-> half,
     material |-> material,
     face_textures |-> NoFaces]

\* char::is_whitespace, for the characters used here
is_whitespace(ch) == ch \in {" ", "\t"}

\* Variant of the solidity test that reads solid_chars only
SolidCharsOnly(ch, params) == ch \in params.solid_chars

\* scene.rs lines 74-80: whether a cell's character produces an object
Solid(ch, params) ==
    IF params.any_non_whitespace_is_solid THEN ~is_whitespace(ch)
    ELSE ch \in params.solid_chars \/ palette_get(ch).some \/ ch \in {"_", "-"}

\* Lines 91-94, 100-103: the template of the character, if any, gives the
\* material and the face textures
ApplyTemplate(obj, ch) ==
    IF palette_get(ch).some
    THEN [obj EXCEPT !.material = palette_get(ch).tpl.material,
                     !.face_textures = palette_get(ch).tpl.face_textures]
    ELSE obj

\* Lines 87-104: the object of a solid cell, a slab for '_' and '-', else a cube
CellObject(ch, center, params) ==
    IF ch \in {"_", "-"}
    THEN ApplyTemplate(from_block_center_size(center, params.cube_size,
                                              IF ch = "_" THEN "Bottom" ELSE "Top",
                                              DefaultMaterial), ch)
    ELSE ApplyTemplate(from_center_size(center, params.cube_size, DefaultMaterial), ch)

\* Lines 82-84: x = (c - half_w) * step_x with half_w = (cols - 1) / 2 and
\* 0-based c, likewise z from the row; here r and c are 1-based
CellCenter(rows, cols, layer_idx, r, c, params) ==
    [a \in Axes |->
        params.origin[a]
          + <<((2 * (c - 1) - (cols - 1)) * params.cube_size[1]) \div 2,
              params.y0 + layer_idx * params.y_step,
              ((2 * (r - 1) - (Len(rows) - 1)) * params.cube_size[3]) \div 2>>[a]]

\* Lines 68-72: the character of a cell, rows padded with ' ' to cols
CellChar(rows, r, c) == IF c <= Len(rows[r]) THEN rows[r][c] ELSE " "

\* One layer of load_ascii_layers_with_palette (lines 54-107).  A layer is a
\* sequence of rows, a row a sequence of one-character strings; the objects come
\* out row by row, column by column.
RECURSIVE LayerCells(_, _, _, _, _, _)
LayerCells(rows, cols, layer_idx, r, c, params) ==
    (IF Solid(CellChar(rows, r, c), params)
     THEN <<CellObject(CellChar(rows, r, c),
                       CellCenter(rows, cols, layer_idx, r, c, params), params)>>
     ELSE <<>>)
    \o (IF c < cols THEN LayerCells(rows, cols, layer_idx, r, c + 1, params)
        ELSE IF r < Len(rows) THEN LayerCells(rows, cols, layer_idx, r + 1, 1, params)
        ELSE <<>>)

\* s.trim().is_empty()
IsBlank(row) == \A i \in 1..Len(row) : is_whitespace(row[i])

\* Lines 50-51: blank lines are removed from the front and from the back
RECURSIVE TrimBlank(_)
TrimBlank(lines) ==
    IF lines = <<>> THEN lines
    ELSE IF IsBlank(lines[1]) THEN TrimBlank(Tail(lines))
    ELSE IF IsBlank(lines[Len(lines)]) THEN TrimBlank(SubSeq(lines, 1, Len(lines) - 1))
    ELSE lines

\* Lines 52-107: a file without lines is skipped, else its cells are placed
LayerOf(lines, layer_idx, params) ==
    IF lines = <<>> THEN <<>>
    ELSE LayerCells(lines, MaxOf({Len(lines[k]) : k \in 1..Len(lines)}),
                    layer_idx, 1, 1, params)

\* Lines 40-108: the sorted files, each one layer; layer_idx counts every file
RECURSIVE Layers(_, _, _)
Layers(files, k, params) ==
    IF k > Len(files) THEN <<>>
    ELSE LayerOf(TrimBlank(files[k].lines), k - 1, params) \o Layers(files, k + 1, params)

\* entries.sort_by_key(|e| e.path()) (line 37)
RECURSIVE SortByPath(_)
SortByPath(S) ==
    IF S = {} THEN <<>>
    ELSE <<CHOOSE e \in S : \A f \in S : e.path <= f.path>>
            \o SortByPath(S \ {CHOOSE e \in S : \A f \in S : e.path <= f.path})

\* io::Result values
Err == [ok |-> FALSE]
Ok(v) == [ok |-> TRUE, val |-> v]

\* load_ascii_layers_with_palette (lines 23-111).  A directory is readable or
\* not and holds entries [path, txt, readable, lines]; fs::read_dir(dir)? and
\* fs::read_to_string(&path)? return the error, everything else is Ok
load_ascii_layers_with_palette(dir, params) ==
    IF ~dir.readable THEN Err
    ELSE IF \E e \in dir.entries : e.txt /\ ~e.readable THEN Err
    ELSE Ok(Layers(SortByPath({e \in dir.entries : e.txt}), 1, params))

\* A readable directory of layer files, one per grid, named in their order
DirOf(layers) ==
    [readable |-> TRUE,
     entries |-> {[path |-> k, txt |-> TRUE, readable |-> TRUE, lines |-> layers[k]] :
                    k \in 1..Len(layers)}]

\* The scene main() loads from a directory of the given layers (lines 443-446)
SceneOf(layers) == load_ascii_layers_with_palette(DirOf(layers), SceneParams).val

\* main.rs neighbor_cell_center_from_face_hit (lines 345-368)
neighbor_cell_center_from_face_hit(hit_point, hit_normal, size, origin) ==
    [a \in Axes |->
        LET p_inside == FSub(hit_point[a], FInt(hit_normal[a] * PICK_EPS))
            rel == FSub(p_inside, FInt(origin[a]))
            i == FFloorI32(FDiv(rel, size[a])) + Sgn(hit_normal[a])
        IN  origin[a] + i * size[a] + size[a] \div 2]

\* Variant of the left-click branch that puts the new block in front
LeftClickSceneFront(objs, hit, ch) ==
    IF hit.is_intersecting /\ palette_get(ch).some
    THEN <<make_block_from_palette(
                neighbor_cell_center_from_face_hit(hit.point, hit.normal, CubeSize,
                                                   SceneParams.origin),
                CubeSize, palette_get(ch).tpl)>> \o objs
    ELSE objs

\* The left-click branch of main's loop (lines 577-588): the scene after the click
LeftClickScene(objs, hit, ch) ==
    IF hit.is_intersecting /\ palette_get(ch).some
    THEN Append(objs,
                make_block_from_palette(
                    neighbor_cell_center_from_face_hit(hit.point, hit.normal, CubeSize,
                                                       SceneParams.origin),
                    CubeSize, palette_get(ch).tpl))
    ELSE objs

-----------------------------------------------------------------------------
(* Camera (camera.rs), light (light.rs), hotbar (build.rs), framebuffer      *)
(* (framebuffer.rs).  Angles are integers in milliradians.  The eye and the  *)
(* basis vectors are trigonometric functions of (yaw, pitch, distance) and   *)
(* are not computed: a value that depends on them carries the camera record. *)

PI_MILLI == 3142               \* std::f32::consts::PI
ROTATION_SPEED == 31           \* PI / 100
DIR_ROT_SPEED == 10            \* PI / 300
MOVE_SPEED == 1500             \* 0.15
ZOOM_STEP == 5000              \* camera.zoom(0.5)
ZOOM_SENSITIVITY_PCT == 50     \* zoom_sensitivity: 0.5, in percent
MIN_PITCH == -1450             \* the CameraConfig main() sets
MAX_PITCH == 1450
MIN_DISTANCE == 5000           \* 0.5
MAX_DISTANCE == 20000000       \* 2000.0
LIGHT_MIN_PITCH == -1300
LIGHT_MAX_PITCH == 1300
LIGHT_ASIN_CLAMP == 999

\* cube_size.x.max(0.01), the cell size main() builds the grid with
DesiredCellSize == IF CubeSize[1] > UNIT \div 100 THEN CubeSize[1] ELSE UNIT \div 100

\* CameraConfig::default (camera.rs 19-31); sensitivities in percent
CameraConfigDefault ==
    [orbit_sensitivity_yaw |-> 100, orbit_sensitivity_pitch |-> 100,
     zoom_sensitivity |-> 100, min_pitch |-> -1450, max_pitch |-> 1450,
     min_distance |-> UNIT \div 4, max_distance |-> 5000 * UNIT]

\* The CameraConfig main() sets (main.rs 458-466)
MainCameraConfig ==
    [orbit_sensitivity_yaw |-> 100, orbit_sensitivity_pitch |-> 100,
     zoom_sensitivity |-> ZOOM_SENSITIVITY_PCT, min_pitch |-> MIN_PITCH,
     max_pitch |-> MAX_PITCH, min_distance |-> MIN_DISTANCE,
     max_distance |-> MAX_DISTANCE]

clamp_angles_and_distance(cam) ==
    [cam EXCEPT !.pitch = Clamp(@, cam.config.min_pitch, cam.config.max_pitch),
                !.distance = Clamp(@, cam.config.min_distance, cam.config.max_distance)]

\* Camera::from_spherical: the angles as given, the default config, clamped
from_spherical(center, distance, yaw, pitch) ==
    clamp_angles_and_distance(
        [center |-> center, distance |-> distance, yaw |-> yaw, pitch |-> pitch,
         config |-> CameraConfigDefault])

\* Variant of set_config that stores the config without clamping
SetConfigOnly(cam, cfg) == [cam EXCEPT !.config = cfg]

\* Camera::set_config
set_config(cam, cfg) == clamp_angles_and_distance([cam EXCEPT !.config = cfg])

\* Camera::set_center: distance and angles are kept
set_center(cam, new_center) == [cam EXCEPT !.center = new_center]

\* Camera::new(eye, center, up) for the eyes used here: distance |eye - center|,
\* pitch asin(dy / distance), yaw atan2(dz, dx), the default config, clamped.
\* (20, 10, 20) -> 30, asin(1/3), pi/4;  (0, 0, -5) -> 5, 0, -pi/2;
\* (-3, 4, 0) -> 5, asin(4/5), pi;  eye = center -> 1e-6, 0, 0
CameraSpherical(eye) ==
    CASE eye = <<20, 10, 20>> -> [distance |-> 30 * UNIT, pitch |-> 340,
                                  yaw |-> PI_MILLI \div 4]
      [] eye = <<0, 0, -5>> -> [distance |-> 5 * UNIT, pitch |-> 0,
                                yaw |-> -(PI_MILLI \div 2)]
      [] eye = <<-3, 4, 0>> -> [distance |-> 5 * UNIT, pitch |-> 927, yaw |-> PI_MILLI]
      [] eye = <<0, 0, 0>> -> [distance |-> 0, pitch |-> 0, yaw |-> 0]

CameraFromEye(eye) ==
    clamp_angles_and_distance(
        [center |-> <<0, 0, 0>>, distance |-> CameraSpherical(eye).distance,
         yaw |-> CameraSpherical(eye).yaw, pitch |-> CameraSpherical(eye).pitch,
         config |-> CameraConfigDefault])

\* Camera::new((20, 10, 20), origin, up) followed by set_config (main.rs 452-466)
CameraNew == set_config(CameraFromEye(<<20, 10, 20>>), MainCameraConfig)

\* Camera::orbit: one wrap of the yaw each way (lines 129-130), then the clamp
orbit(cam, delta_yaw, delta_pitch) ==
    LET y1 == cam.yaw + (delta_yaw * cam.config.orbit_sensitivity_yaw) \div 100
        y2 == IF y1 > PI_MILLI THEN y1 - 2 * PI_MILLI ELSE y1
        y3 == IF y2 < -PI_MILLI THEN y2 + 2 * PI_MILLI ELSE y2
    IN  clamp_angles_and_distance(
            [cam EXCEPT !.yaw = y3,
                        !.pitch = @ + (delta_pitch * cam.config.orbit_sensitivity_pitch)
                                          \div 100])

\* self.distance += amount * self.config.zoom_sensitivity
zoom(cam, amount) ==
    clamp_angles_and_distance(
        [cam EXCEPT !.distance = @ + (amount * cam.config.zoom_sensitivity) \div 100])

\* Camera::zoom_exp: factor = (1.0 + 0.2 * amount).max(0.05), amount and factor
\* in percent; the product is taken in two parts to stay within 32 bits
zoom_exp(cam, amount) ==
    clamp_angles_and_distance(
        [cam EXCEPT !.distance =
            (@ \div 100) * MaxInt(100 + (20 * amount) \div 100, 5)
                + ((@ % 100) * MaxInt(100 + (20 * amount) \div 100, 5)) \div 100])

\* Light::directional((-1, -1, 0.3), white, 1.2): the unit direction is kept as
\* its yaw atan2(z, x) and pitch asin(y)
LightDirectional ==
    [kind |-> "Directional", position |-> <<0, 0, 0>>, yaw |-> 2850, pitch |-> -764,
     color |-> <<255, 255, 255, 255>>, intensity |-> 120]

\* Variant of translate without the test of the kind
TranslateAnyKind(l, delta) ==
    [l EXCEPT !.position = [a \in Axes |-> l.position[a] + delta[a]]]

\* Light::translate
translate(l, delta) ==
    IF l.kind = "Point"
    THEN [l EXCEPT !.position = [a \in Axes |-> l.position[a] + delta[a]]]
    ELSE l

\* Light::yaw_pitch
yaw_pitch(l, yaw, pitch) ==
    IF l.kind # "Directional" THEN l
    ELSE [l EXCEPT !.yaw = @ + yaw,
                   !.pitch = Clamp(Clamp(@, -LIGHT_ASIN_CLAMP, LIGHT_ASIN_CLAMP) + pitch,
                                   LIGHT_MIN_PITCH, LIGHT_MAX_PITCH)]

\* BuildState: options (line 484 of main.rs) and the selected index
Options == <<"X", "D", "L", "P", "G", "l", "H">>

BuildStateNew == [sel_idx |-> 0]

current_block_char(b) == IF b.sel_idx < Len(Options) THEN Options[b.sel_idx + 1] ELSE "X"

builder_next(b) == [b EXCEPT !.sel_idx = (@ + 1) % Len(Options)]

builder_prev(b) == [b EXCEPT !.sel_idx = IF @ = 0 THEN Len(Options) - 1 ELSE @ - 1]

\* Colours: BLACK is the empty tuple; a shaded pixel is the tuple of what
\* cast_ray was given for it
BLACK == <<>>

\* Framebuffer::new.  writes counts the stores into each pixel since the last
\* clear and oob records a store outside the buffer (a panic in the program).
FramebufferNew(w, h) ==
    [width |-> w, height |-> h,
     pixels |-> [i \in 1..(w * h) |-> BLACK],
     writes |-> [i \in 1..(w * h) |-> 0],
     oob |-> FALSE]

\* Framebuffer::clear: every pixel to the background colour (BLACK)
clear(f) ==
    [f EXCEPT !.pixels = [i \in 1..Len(f.pixels) |-> BLACK],
              !.writes = [i \in 1..Len(f.pixels) |-> 0]]

-----------------------------------------------------------------------------
(* render (main.rs 249-342): row bands, workers, join and blit. *)

\* What identifies the scene and grid a pixel was shaded against
SceneStamp(objs, g) ==
    <<[i \in 1..Len(objs) |-> <<objs[i].min, objs[i].max>>], g.dims>>

\* Lines 298-317: the colour of pixel (x, y).  The ray is a function of fx, fy,
\* the image size and the camera basis; cast_ray is a function of its
\* arguments; the colour is kept as the tuple of those inputs.
PixelColor(x, y, w, h, cam, l, preview, objs, g) ==
    <<x, y, w, h, cam, l, preview, SceneStamp(objs, g)>>

\* Variant: the band height rounded down
RowsPerFloor(h, threads) == h \div threads

\* let rows_per = (h + threads - 1) / threads
RowsPer(h, threads) == (h + threads - 1) \div threads

\* The closure a spawned worker starts with (lines 281-296)
SpawnWorker(t, rows_per, w, h) ==
    LET y_start == t * rows_per
        y_end == MinInt((t + 1) * rows_per, h)
    IN  [y_start |-> y_start,
         y_end |-> y_end,
         row_off |-> 0,
         local |-> [i \in 1..((y_end - y_start) * w) |-> BLACK],
         state |-> "running"]

\* local[row_off * span_w + x]
LocalIndex(row_off, span_w, x) == row_off * span_w + x

\* One iteration of the worker's row loop (lines 298-318)
ShadeRow(wk, w, h, cam, l, preview, objs, g) ==
    LET y == wk.y_start + wk.row_off
        first == LocalIndex(wk.row_off, w, 0)
    IN  [wk EXCEPT
            !.local = [i \in 1..Len(wk.local) |->
                          IF i - 1 >= first /\ i - 1 < first + w
                          THEN PixelColor(i - 1 - first, y, w, h, cam, l, preview, objs, g)
                          ELSE wk.local[i]],
            !.row_off = wk.row_off + 1]

\* Variant: a join that does not wait for the closure
JoinWithoutWait(wk) == TRUE

\* j.join() returns once the worker's closure has returned
CanJoin(wk) == wk.state = "finished"

\* Variant: the blit loop starts with handles still unjoined
JoinsAbandoned(r, ws) == TRUE

\* The blit loop starts when the join loop has consumed every handle
JoinsDrained(r, ws) == r.joined = Len(ws)

\* Variant: the destination row taken from the band's own offset
DstStartInBand(y_start, row_off, w) == row_off * w

\* let dst_start = (y_start + row_off) * w
DstStart(y_start, row_off, w) == (y_start + row_off) * w

\* pixels[dst_start..dst_start + w].copy_from_slice(&local[src_start..src_start + w])
BlitRow(f, y_start, local, row_off) ==
    LET w == f.width
        dst == DstStart(y_start, row_off, w)
        src == row_off * w
    IN  IF dst + w > Len(f.pixels) THEN [f EXCEPT !.oob = TRUE]
        ELSE [f EXCEPT
                !.pixels = [i \in 1..Len(f.pixels) |->
                              IF i - 1 >= dst /\ i - 1 < dst + w
                              THEN local[src + (i - 1 - dst) + 1]
                              ELSE f.pixels[i]],
                !.writes = [i \in 1..Len(f.pixels) |->
                              IF i - 1 >= dst /\ i - 1 < dst + w
                              THEN f.writes[i] + 1
                              ELSE f.writes[i]]]

\* for row_off in 0..span_h, with span_h = local.len() / w
RECURSIVE BlitBand(_, _, _, _)
BlitBand(f, y_start, local, row_off) ==
    IF row_off >= Len(local) \div f.width THEN f
    ELSE BlitBand(BlitRow(f, y_start, local, row_off), y_start, local, row_off + 1)

Running(ws) == {i \in 1..Len(ws) : ws[i].state = "running"}

\* render is entered: threads is available_parallelism() (or 4)
RenderBegin(threads) ==
    /\ pc = "render"
    /\ rend' = [threads |-> threads,
                rows_per |-> RowsPer(fb.height, threads),
                t |-> 0,
                joined |-> 0,
                results |-> <<>>,
                blitted |-> 0]
    /\ workers' = <<>>
    /\ pc' = "spawn"
    /\ UNCHANGED <<objects, accel, camera, light, builder, q, dda, fb, stack>>

\* for t in 0..threads: one spawn
RenderSpawn ==
    /\ pc = "spawn"
    /\ rend.t < rend.threads
    /\ rend.t * rend.rows_per < fb.height
    /\ workers' = Append(workers, SpawnWorker(rend.t, rend.rows_per, fb.width, fb.height))
    /\ rend' = [rend EXCEPT !.t = @ + 1]
    /\ UNCHANGED <<objects, accel, camera, light, builder, q, dda, pc, fb, stack>>

\* the spawn loop ends (t = threads, or y_start >= h: break)
RenderSpawnDone ==
    /\ pc = "spawn"
    /\ (rend.t >= rend.threads \/ rend.t * rend.rows_per >= fb.height)
    /\ pc' = "join"
    /\ UNCHANGED <<objects, accel, camera, light, builder, q, dda, workers, rend, fb, stack>>

\* a worker shades its next row into its local buffer
WorkerRow ==
    \E i \in Running(workers) :
        /\ workers[i].row_off < workers[i].y_end - workers[i].y_start
        /\ workers' = [workers EXCEPT
                          ![i] = ShadeRow(@, fb.width, fb.height, camera, light,
                                          q.preview, objects, accel)]
        /\ UNCHANGED <<objects, accel, camera, light, builder, q, dda, pc, rend, fb, stack>>

\* a worker's closure returns (y_start, local)
WorkerReturn ==
    \E i \in Running(workers) :
        /\ workers[i].row_off >= workers[i].y_end - workers[i].y_start
        /\ workers' = [workers EXCEPT ![i].state = "finished"]
        /\ UNCHANGED <<objects, accel, camera, light, builder, q, dda, pc, rend, fb, stack>>

\* for j in joins: join the next handle and push its result
RenderJoin ==
    /\ pc = "join"
    /\ rend.joined < Len(workers)
    /\ CanJoin(workers[rend.joined + 1])
    /\ rend' = [rend EXCEPT
                  !.joined = @ + 1,
                  !.results = Append(@, [y_start |-> workers[rend.joined + 1].y_start,
                                         local |-> workers[rend.joined + 1].local])]
    /\ workers' = [workers EXCEPT ![rend.joined + 1].state =
                      IF @ = "finished" THEN "joined" ELSE @]
    /\ UNCHANGED <<objects, accel, camera, light, builder, q, dda, pc, fb, stack>>

RenderJoinDone ==
    /\ pc = "join"
    /\ JoinsDrained(rend, workers)
    /\ pc' = "blit"
    /\ UNCHANGED <<objects, accel, camera, light, builder, q, dda, workers, rend, fb, stack>>

\* for (y_start, local) in results: copy one band into the framebuffer
RenderBlit ==
    /\ pc = "blit"
    /\ rend.blitted < Len(rend.results)
    /\ fb' = BlitBand(fb, rend.results[rend.blitted + 1].y_start,
                      rend.results[rend.blitted + 1].local, 0)
    /\ rend' = [rend EXCEPT !.blitted = @ + 1]
    /\ UNCHANGED <<objects, accel, camera, light, builder, q, dda, pc, workers, stack>>

\* the scope ends and render returns
RenderReturn ==
    /\ pc = "blit"
    /\ rend.blitted >= Len(rend.results)
    /\ pc' = "present"
    /\ UNCHANGED <<objects, accel, camera, light, builder, q, dda, workers, rend, fb, stack>>

-----------------------------------------------------------------------------
(* Bounds of the model. *)

MaxPlaced == 1         \* blocks placed on top of a loaded scene (grid queries)
DirMax == 1            \* ray direction components range over -DirMax..DirMax

\* Scene files the loader is run on: one cube; a glass and a leaves cube side by
\* side; two cubes in opposite corners of a 3 x 3 layer
LayerMaps ==
    { << <<"X">> >>,
      << <<"G", "l">> >>,
      << <<"X", " ", " ">>, <<" ", " ", " ">>, <<" ", " ", "X">> >> }

LoadedScenes == {SceneOf(<<m>>) : m \in LayerMaps}

\* Ray origins (model units) and directions of the grid queries
GridOrigins ==
    {V3(x, y, z) : x \in {-UNIT, (3 * UNIT) \div 4},
                   y \in {UNIT \div 2, 2 * UNIT},
                   z \in {(3 * UNIT) \div 4, UNIT}}

Dirs == {d \in (-DirMax..DirMax) \X (-DirMax..DirMax) \X (-DirMax..DirMax) :
            d # <<0, 0, 0>>}

\* The directions of the grid queries: with none, one, two or three zero
\* components
WalkDirs == Dirs \cup {<<0, 0, 0>>}

MaxTs == {FInf, FInt(UNIT + UNIT \div 2)}

NoQuery == [kind |-> "none"]
NoDda == [status |-> "idle"]
NoWorkers == <<>>
NoRend == [threads |-> 0]
NoStack == <<>>

-----------------------------------------------------------------------------
(* SpecGrid: a loaded scene, blocks placed by left clicks, and closest-hit   *)
(* and any-hit queries walked one DDA iteration per step.                  *)

GridInit ==
    /\ objects \in LoadedScenes
    /\ accel = build(objects, DesiredCellSize)
    /\ q = NoQuery
    /\ dda = NoDda
    /\ pc = "idle"
    /\ camera = CameraNew
    /\ light = LightDirectional
    /\ builder = BuildStateNew
    /\ workers = NoWorkers
    /\ rend = NoRend
    /\ fb = FramebufferNew(1, 1)
    /\ stack = NoStack

\* A left click whose pick ray is (ro, rd), with ch selected: push and rebuild
GridPlace ==
    /\ pc = "idle"
    /\ Len(objects) < 2 + MaxPlaced
    /\ \E ro \in GridOrigins, rd \in Dirs, ch \in {"X"} :
          /\ objects' = LeftClickScene(objects, trace(accel, ro, rd, objects), ch)
          /\ Len(objects') > Len(objects)
          /\ accel' = build(objects', DesiredCellSize)
    /\ UNCHANGED <<camera, light, builder, q, dda, pc, workers, rend, fb, stack>>

GridStartTrace ==
    /\ pc = "idle"
    /\ \E ro \in GridOrigins, rd \in WalkDirs :
          /\ q' = [kind |-> "trace", ro |-> ro, rd |-> rd, max_t |-> FInf]
          /\ dda' = DdaSetup(accel, ro, rd)
    /\ pc' = "walk"
    /\ UNCHANGED <<objects, accel, camera, light, builder, workers, rend, fb, stack>>

GridStartOccluded ==
    /\ pc = "idle"
    /\ \E ro \in GridOrigins, rd \in WalkDirs, max_t \in MaxTs :
          /\ q' = [kind |-> "occluded", ro |-> ro, rd |-> rd, max_t |-> max_t]
          /\ dda' = DdaSetup(accel, ro, rd)
    /\ pc' = "walk"
    /\ UNCHANGED <<objects, accel, camera, light, builder, workers, rend, fb, stack>>

GridStep ==
    /\ pc = "walk"
    /\ dda.status = "run"
    /\ dda' = IF q.kind = "trace"
              THEN TraceStep(accel, objects, q.ro, q.rd, dda)
              ELSE OccludedStep(accel, objects, q.ro, q.rd, q.max_t, dda)
    /\ UNCHANGED <<objects, accel, camera, light, builder, q, pc, workers, rend, fb, stack>>

GridReturn ==
    /\ pc = "walk"
    /\ dda.status = "done"
    /\ pc' = "idle"
    /\ q' = NoQuery
    /\ dda' = NoDda
    /\ UNCHANGED <<objects, accel, camera, light, builder, workers, rend, fb, stack>>

GridNext ==
    \/ GridPlace
    \/ GridStartTrace
    \/ GridStartOccluded
    \/ GridStep
    \/ GridReturn

SpecGrid == GridInit /\ [][GridNext]_vars

\* The reference: a linear scan of ray_intersect over the scene vector
LinearHits(objs, ro, rd) ==
    {i \in 1..Len(objs) : ray_intersect(objs[i], ro, rd).is_intersecting}

LinearDistances(objs, ro, rd) ==
    {ray_intersect(objs[i], ro, rd).distance : i \in LinearHits(objs, ro, rd)}

FMinOf(S) == CHOOSE x \in S : \A y \in S : FLe(x, y)

LinearOccluded(objs, ro, rd, max_t) ==
    \E d \in LinearDistances(objs, ro, rd) : FGt(d, FInt(EPS)) /\ FLt(d, max_t)

TraceDone == pc = "walk" /\ q.kind = "trace" /\ dda.status = "done"
OccludedDone == pc = "walk" /\ q.kind = "occluded" /\ dda.status = "done"

(* C1: the grid's closest-hit query reports a hit exactly when a linear scan of
   ray_intersect over the scene finds one, and at the scan's minimum distance. *)
C1_TraceEqualsLinearScan ==
    TraceDone =>
        LET ds == LinearDistances(objects, q.ro, q.rd)
        IN  /\ dda.best.is_intersecting <=> ds # {}
            /\ dda.best.is_intersecting => dda.best.distance = FMinOf(ds)

(* C2: the grid's any-hit query is true exactly when a linear scan finds an
   object hit at a distance d with eps < d < max_t. *)
C2_OccludedEqualsLinearScan ==
    OccludedDone =>
        (dda.occluded <=> LinearOccluded(objects, q.ro, q.rd, q.max_t))

\* The closed interval cell k spans on axis a: [min + k*cell_size, min + (k+1)*cell_size]
CellLo(g, a, k) == FAdd(FInt(g.bounds.min[a]), FScale(k, g.cell_size[a]))
CellHi(g, a, k) == FAdd(FInt(g.bounds.min[a]), FScale(k + 1, g.cell_size[a]))

\* The object's AABB and cell c = <<ix, iy, iz>> share at least one point
AabbTouchesCell(g, o, c) ==
    \A a \in Axes :
        /\ FLe(FInt(aabb(o)[1][a]), CellHi(g, a, c[a]))
        /\ FGe(FInt(aabb(o)[2][a]), CellLo(g, a, c[a]))

\* The object's AABB and the cell share a region of positive extent on every axis
AabbCrossesCell(g, o, c) ==
    \A a \in Axes :
        /\ FLt(FInt(aabb(o)[1][a]), CellHi(g, a, c[a]))
        /\ FGt(FInt(aabb(o)[2][a]), CellLo(g, a, c[a]))

CellCoords(g) == (0..(g.dims[1] - 1)) \X (0..(g.dims[2] - 1)) \X (0..(g.dims[3] - 1))

CellMembers(g, c) ==
    LET l == g.cells[cell_index(g.dims, c[1], c[2], c[3]) + 1]
    IN  {l[j] : j \in 1..Len(l)}

GridShapeOk(g, objs) ==
    /\ \A a \in Axes : g.dims[a] >= 1
    /\ Len(g.cells) = g.dims[1] * g.dims[2] * g.dims[3]
    /\ \A k \in 1..Len(g.cells) : \A j \in 1..Len(g.cells[k]) :
          g.cells[k][j] \in 0..(Len(objs) - 1)

(* C4: after build on a non-empty scene the dims are at least 1, cells has
   dims.x*dims.y*dims.z entries, every stored index is a valid scene index, and
   every object is listed in every cell its AABB touches, at index
   (iz*dims.y + iy)*dims.x + ix. *)
C4_BuildListsEveryTouchedCell ==
    (pc = "idle" /\ Len(objects) > 0) =>
        /\ GridShapeOk(accel, objects)
        /\ \A i \in 1..Len(objects) : \A c \in CellCoords(accel) :
              AabbTouchesCell(accel, objects[i], c) => (i - 1) \in CellMembers(accel, c)

\* The same with "overlaps" read as sharing a region of positive volume
BuildListsEveryCrossedCell ==
    (pc = "idle" /\ Len(objects) > 0) =>
        /\ GridShapeOk(accel, objects)
        /\ \A i \in 1..Len(objects) : \A c \in CellCoords(accel) :
              AabbCrossesCell(accel, objects[i], c) => (i - 1) \in CellMembers(accel, c)

-----------------------------------------------------------------------------
(* SpecRender: render on a fixed scene, first with one worker, then with any *)
(* worker count, for every image size up to MaxW x MaxH.                     *)

MaxW == 2              \* image widths 1..MaxW
MaxH == 4              \* image heights 1..MaxH
MaxThreads == 4        \* worker counts 1..MaxThreads

RenderScene ==
    SceneOf(<< << <<"X", " ", " ">>, <<" ", " ", " ">>, <<" ", " ", "X">> >> >>)

RenderInit ==
    /\ objects = RenderScene
    /\ accel = build(objects, DesiredCellSize)
    /\ camera = CameraNew
    /\ light = LightDirectional
    /\ builder = BuildStateNew
    /\ q = [pass |-> 1, reference |-> <<>>, preview |-> None]
    /\ dda = NoDda
    /\ pc = "render"
    /\ workers = NoWorkers
    /\ rend = NoRend
    /\ \E w \in 1..MaxW, h \in 1..MaxH : fb = FramebufferNew(w, h)
    /\ stack = NoStack

\* the reference pass: one worker
RenderBeginOne == q.pass = 1 /\ RenderBegin(1)

\* the compared pass: any worker count
RenderBeginMany == q.pass = 2 /\ \E threads \in 1..MaxThreads : RenderBegin(threads)

\* between the passes: keep the image, clear the framebuffer as main does
RenderKeepReference ==
    /\ pc = "present"
    /\ q.pass = 1
    /\ q' = [q EXCEPT !.pass = 2, !.reference = fb.pixels]
    /\ fb' = clear(fb)
    /\ workers' = NoWorkers
    /\ rend' = NoRend
    /\ pc' = "render"
    /\ UNCHANGED <<objects, accel, camera, light, builder, dda, stack>>

RenderNext ==
    \/ RenderBeginOne
    \/ RenderBeginMany
    \/ RenderSpawn
    \/ RenderSpawnDone
    \/ WorkerRow
    \/ WorkerReturn
    \/ RenderJoin
    \/ RenderJoinDone
    \/ RenderBlit
    \/ RenderReturn
    \/ RenderKeepReference

SpecRender == RenderInit /\ [][RenderNext]_vars

Returned == pc = "present"

(* C6: for a fixed scene, grid, camera, light and preview, the framebuffer after
   render with T workers equals, pixel for pixel, the framebuffer after render
   with one worker. *)
C6_ImageIndependentOfWorkers ==
    (Returned /\ q.pass = 2) => fb.pixels = q.reference

C6_Witness ==
    /\ Returned
    /\ q.pass = 2
    /\ rend.threads >= 3
    /\ Len(workers) >= 2
    /\ fb.height >= 3
    /\ fb.pixels = q.reference
    /\ \A i \in 1..Len(fb.pixels) : fb.pixels[i] # BLACK

Rows(wk) == wk.y_start..(wk.y_end - 1)

SpawnLoopOver == pc \in {"join", "blit", "present"}

(* C7: the bands [t*ceil(H/T), min((t+1)*ceil(H/T), H)) of the spawned workers
   are pairwise disjoint and together are exactly rows 0..H-1; every framebuffer
   pixel is written exactly once per render call and no store falls outside the
   W*H buffer. *)
C7_BandsPartitionRows ==
    /\ \A i \in 1..Len(workers) :
          LET per == (fb.height + rend.threads - 1) \div rend.threads
          IN  /\ workers[i].y_start = (i - 1) * per
              /\ workers[i].y_end = MinInt(i * per, fb.height)
              /\ Len(workers[i].local) = (workers[i].y_end - workers[i].y_start) * fb.width
    /\ \A i, j \in 1..Len(workers) : i # j => Rows(workers[i]) \cap Rows(workers[j]) = {}
    /\ SpawnLoopOver =>
          UNION {Rows(workers[i]) : i \in 1..Len(workers)} = 0..(fb.height - 1)
    /\ ~fb.oob
    /\ \A k \in 1..Len(fb.writes) : fb.writes[k] <= 1
    /\ Returned => \A k \in 1..Len(fb.writes) : fb.writes[k] = 1

C7_Witness ==
    /\ Returned
    /\ q.pass = 2
    /\ fb.height = 4
    /\ rend.threads = 3
    /\ Len(workers) = 2
    /\ fb.width = 2
    /\ \A k \in 1..Len(fb.writes) : fb.writes[k] = 1

BlitStarted == pc \in {"blit", "present"} /\ rend.blitted > 0

AllJoined ==
    /\ rend.joined = Len(workers)
    /\ Len(rend.results) = Len(workers)
    /\ \A i \in 1..Len(workers) :
          /\ workers[i].state = "joined"
          /\ workers[i].row_off = workers[i].y_end - workers[i].y_start

(* C8: in every render call all spawned workers have finished and been joined
   before the main thread copies any local buffer into the framebuffer, and
   render returns only after every worker is joined and every band is blitted. *)
C8_JoinBeforeBlit ==
    /\ (pc = "blit" \/ BlitStarted) => AllJoined
    /\ (\E k \in 1..Len(fb.writes) : fb.writes[k] > 0) => AllJoined
    /\ Returned => (AllJoined /\ rend.blitted = Len(workers))

C8_Witness ==
    /\ pc = "blit"
    /\ rend.blitted = 1
    /\ Len(workers) = 3
    /\ AllJoined

-----------------------------------------------------------------------------
(* Spec: the main loop (main.rs 519-611).  Each frame: input, pick, edit,    *)
(* clear, render, present.                                                   *)

MaxFrames == 2         \* frames before the window closes
FbWidth == 1           \* the framebuffer of the main loop, in pixels
FbHeight == 2
MainThreads == 2       \* available_parallelism() ranges over 1..MainThreads

\* One key per frame
Keys == {"NONE", "KEY_LEFT", "KEY_ONE", "KEY_E"}

\* The pick ray of the frame: the eye and the mouse direction
PickRays ==
    { <<V3((3 * UNIT) \div 4, 2 * UNIT, (3 * UNIT) \div 4), <<0, -1, 0>>>>,
      <<V3(-UNIT, UNIT \div 2, UNIT), <<1, 0, -1>>>>,
      <<V3(-UNIT, 2 * UNIT, UNIT), <<0, 1, 0>>>> }

\* Lines 521-526
InputCamera(cam, key) ==
    CASE key = "KEY_LEFT" -> orbit(cam, ROTATION_SPEED, 0)
      [] key = "KEY_RIGHT" -> orbit(cam, -ROTATION_SPEED, 0)
      [] key = "KEY_DOWN" -> orbit(cam, 0, -ROTATION_SPEED)
      [] key = "KEY_UP" -> orbit(cam, 0, ROTATION_SPEED)
      [] key = "KEY_PAGE_UP" -> zoom(cam, -ZOOM_STEP)
      [] key = "KEY_PAGE_DOWN" -> zoom(cam, ZOOM_STEP)
      [] OTHER -> cam

\* Lines 528-549
InputLight(l, key) ==
    LET k == CASE key = "KEY_ONE" -> [l EXCEPT !.kind = "Point"]
               [] key = "KEY_TWO" -> [l EXCEPT !.kind = "Directional"]
               [] OTHER -> l
        d == CASE key = "KEY_J" -> yaw_pitch(k, DIR_ROT_SPEED, 0)
               [] key = "KEY_L" -> yaw_pitch(k, -DIR_ROT_SPEED, 0)
               [] key = "KEY_I" -> yaw_pitch(k, 0, DIR_ROT_SPEED)
               [] key = "KEY_K" -> yaw_pitch(k, 0, -DIR_ROT_SPEED)
               [] OTHER -> k
    IN  CASE key = "KEY_W" -> translate(d, <<0, 0, -MOVE_SPEED>>)
          [] key = "KEY_S" -> translate(d, <<0, 0, MOVE_SPEED>>)
          [] key = "KEY_A" -> translate(d, <<-MOVE_SPEED, 0, 0>>)
          [] key = "KEY_D" -> translate(d, <<MOVE_SPEED, 0, 0>>)
          [] key = "KEY_R" -> translate(d, <<0, MOVE_SPEED, 0>>)
          [] key = "KEY_F" -> translate(d, <<0, -MOVE_SPEED, 0>>)
          [] OTHER -> d

\* Lines 552-553
InputBuilder(b, key) ==
    CASE key = "KEY_Q" -> builder_prev(b)
      [] key = "KEY_E" -> builder_next(b)
      [] OTHER -> b

\* Vec::swap_remove at a 0-based index
swap_remove(v, idx) ==
    [i \in 1..(Len(v) - 1) |-> IF i = idx + 1 THEN v[Len(v)] ELSE v[i]]

\* Variant: the grid is left as it was
KeepAccel(objs, g) == g

\* accel = UniformGridAccel::build(&objects, cube_size.x.max(0.01)) after an edit
AccelAfterEdit(objs, g) == build(objs, DesiredCellSize)

MainInit ==
    /\ objects \in LoadedScenes
    /\ accel = build(objects, DesiredCellSize)
    /\ camera = CameraNew
    /\ light = LightDirectional
    /\ builder = BuildStateNew
    /\ q = [frame |-> 0, preview |-> None]
    /\ dda = NoDda
    /\ pc = "input"
    /\ workers = NoWorkers
    /\ rend = NoRend
    /\ fb = FramebufferNew(FbWidth, FbHeight)
    /\ stack = NoStack

\* The input section of one loop iteration
MainInput ==
    /\ pc = "input"
    /\ q.frame < MaxFrames
    /\ \E key \in Keys :
          /\ camera' = InputCamera(camera, key)
          /\ light' = InputLight(light, key)
          /\ builder' = InputBuilder(builder, key)
    /\ q' = [frame |-> q.frame + 1, preview |-> None]
    /\ pc' = "pick"
    /\ UNCHANGED <<objects, accel, dda, workers, rend, fb, stack>>

\* window_should_close()
MainClose ==
    /\ pc = "input"
    /\ pc' = "closed"
    /\ UNCHANGED <<objects, accel, camera, light, builder, q, dda, workers, rend, fb, stack>>

\* The frame's locals after the pick: the hit and the preview (lines 567-574)
PickFrame(frame, ray, left, right, hit, scene_len) ==
    [frame |-> frame,
     ray |-> ray,
     left |-> left,
     right |-> right,
     hit |-> hit,
     scene_len |-> scene_len,
     preview |-> IF hit.is_intersecting /\ hit.object_index.some
                 THEN Some([hovered_idx |-> hit.object_index.val])
                 ELSE None]

\* Lines 556-574: the pick query and the preview
MainPick ==
    /\ pc = "pick"
    /\ \E ray \in PickRays, left \in BOOLEAN, right \in BOOLEAN :
          q' = PickFrame(q.frame, ray, left, right,
                         trace(accel, ray[1], ray[2], objects), Len(objects))
    /\ pc' = "edit"
    /\ UNCHANGED <<objects, accel, camera, light, builder, dda, workers, rend, fb, stack>>

\* A scene together with the grid rebuilt for it (lines 586-587, 594-595)
SceneAndGrid(objs, g) == [objects |-> objs, accel |-> AccelAfterEdit(objs, g)]

\* Lines 578-588: left click pushes the palette block of the selected character
EditLeft(objs, g, hit, left, ch) ==
    IF hit.is_intersecting /\ left /\ palette_get(ch).some
    THEN SceneAndGrid(LeftClickScene(objs, hit, ch), g)
    ELSE [objects |-> objs, accel |-> g]

\* Lines 590-596: right click removes objects[idx] when the hit names an index
EditRight(s, hit, right) ==
    IF /\ hit.is_intersecting
       /\ right
       /\ hit.object_index.some
       /\ hit.object_index.val < Len(s.objects)
    THEN SceneAndGrid(swap_remove(s.objects, hit.object_index.val), s.accel)
    ELSE s

\* Lines 577-598: the edit of the frame
MainEdit ==
    /\ pc = "edit"
    /\ \E s \in {EditRight(EditLeft(objects, accel, q.hit, q.left,
                                      current_block_char(builder)), q.hit, q.right)} :
          /\ objects' = s.objects
          /\ accel' = s.accel
    /\ pc' = "clear"
    /\ UNCHANGED <<camera, light, builder, q, dda, workers, rend, fb, stack>>

\* framebuffer.clear()
MainClear ==
    /\ pc = "clear"
    /\ fb' = clear(fb)
    /\ pc' = "render"
    /\ UNCHANGED <<objects, accel, camera, light, builder, q, dda, workers, rend, stack>>

MainRender == \E threads \in 1..MainThreads : RenderBegin(threads)

\* swap_buffers_with: the image is shown and the next iteration starts
MainPresent ==
    /\ pc = "present"
    /\ pc' = "input"
    /\ q' = [frame |-> q.frame, preview |-> None]
    /\ workers' = NoWorkers
    /\ rend' = NoRend
    /\ UNCHANGED <<objects, accel, camera, light, builder, dda, fb, stack>>

Next ==
    \/ MainInput
    \/ MainClose
    \/ MainPick
    \/ MainEdit
    \/ MainClear
    \/ MainRender
    \/ RenderSpawn
    \/ RenderSpawnDone
    \/ WorkerRow
    \/ WorkerReturn
    \/ RenderJoin
    \/ RenderJoinDone
    \/ RenderBlit
    \/ RenderReturn
    \/ MainPresent

Spec == MainInit /\ [][Next]_vars

(* C3: every render call and every pick query uses a grid that was built from
   the scene vector exactly as it is at that call. *)
C3_GridBuiltFromCurrentScene ==
    (pc = "pick" \/ pc = "render") =>
        accel = build(objects, DesiredCellSize)

C3_Witness ==
    /\ pc = "pick"
    /\ q.frame = 2
    /\ Len(objects) = 3
    /\ accel = build(objects, DesiredCellSize)

(* C5: a right click in a frame whose pick ray hits a scene object removes that
   object (the scene vector is one shorter afterwards) and the grid is rebuilt. *)
C5_RightClickRemovesHitObject ==
    (pc = "clear" /\ q.right /\ ~q.left /\ q.hit.is_intersecting) =>
        /\ Len(objects) = q.scene_len - 1
        /\ accel = build(objects, DesiredCellSize)

(* C9: while any render worker is running, the scene vector, the grid, the
   camera, the light and the framebuffer are not written; the scene and the grid
   change only in the main thread's edit step, between one render call's return
   and the next render call. *)
C9_NoWriteWhileWorkersRun ==
    [][ /\ Running(workers) # {} =>
              UNCHANGED <<objects, accel, camera, light, fb>>
        /\ (objects' # objects \/ accel' # accel) =>
              (pc = "edit" /\ workers = NoWorkers)
        /\ (camera' # camera \/ light' # light) =>
              (pc = "input" /\ workers = NoWorkers) ]_vars

C9_Witness ==
    /\ pc = "join"
    /\ Len(workers) = 2
    /\ workers[1].state = "joined"
    /\ workers[2].state = "running"
    /\ workers[2].row_off = 0
    /\ Len(objects) = 3

-----------------------------------------------------------------------------
(* SpecCast: one cast_ray call at depth 0 (main.rs 121-247), run as a call   *)
(* stack.  A frame is one invocation; it stops at each recursive call and     *)
(* resumes when the callee returns.  Directions are normalised vectors and    *)
(* are not computed: what accel.trace finds for a secondary ray ranges over   *)
(* every intersection a block of the palette can produce, refract is applied  *)
(* to every cosine of a small set, and the glint's alignment and visibility   *)
(* tests range over both branches.                                            *)

DepthCap == 6          \* no frame is pushed beyond this depth

\* Variant of the depth test that never cuts the recursion
NeverExceeded(depth) == FALSE

\* if depth > 3 (line 131)
DepthExceeded(depth) == depth > MAX_DEPTH

\* Lines 140-145: Material::new(.., [1.0, 0.0, 0.0, 0.0], 1.0)
PreviewMaterial == Material(<<100, 0, 0, 0>>, 100)

\* Lines 138-150: the hovered object is shaded with the preview material
PreviewOverride(hit, preview) ==
    IF /\ preview.some
       /\ hit.is_intersecting
       /\ hit.object_index.some
       /\ hit.object_index.val = preview.val.hovered_idx
    THEN [hit EXCEPT !.material = PreviewMaterial, !.coverage = 100]
    ELSE hit

\* The intersections ray_intersect builds on a face of a palette block: one per
\* texel its face style accepts (cube.rs 166-177)
FaceHits(tpl) ==
    {with_coverage(V3(0, 0, 0), FaceNormal(3), FInt(UNIT), tpl.material,
                   StyleOf(tpl.face_textures[1].tex.pixels[k],
                           tpl.face_textures[1].style,
                           tpl.face_textures[1].threshold).cov) :
        k \in {j \in 1..Len(tpl.face_textures[1].tex.pixels) :
                  StyleOf(tpl.face_textures[1].tex.pixels[j],
                          tpl.face_textures[1].style,
                          tpl.face_textures[1].threshold).hit}}

\* What accel.trace can return (line 135): no hit, or a hit on a palette block
TraceOutcomes == {IntersectEmpty} \cup UNION {FaceHits(Palette[ch]) : ch \in PaletteChars}

\* let reflectivity = albedo[2] (line 189), in percent
Reflectivity(hit) == hit.material.albedo[3]

\* Variant of the transparency that reads the material only, not the coverage
TransparencyOfMaterial(hit) == Clamp(hit.material.albedo[4] * 100, 0, 100 * 100)

\* (1.0 - coverage) + albedo[3] * coverage, clamped to [0, 1] (lines 191-192),
\* in units of 1e-4
Transparency(hit) ==
    Clamp((100 - hit.coverage) * 100 + hit.material.albedo[4] * hit.coverage, 0, 100 * 100)

\* let k_phong = (1.0 - reflectivity - transparency).max(0.0) (line 245), in
\* units of 1e-4
KPhong(hit) == MaxInt(100 * 100 - Reflectivity(hit) * 100 - Transparency(hit), 0)

\* Vector3::zero(): the colour of a leg that casts no ray
ZeroColour == [ray |-> "zero", depth |-> 0]

\* No term of the composite has been computed
NoTerms == [phong |-> <<0, 0>>, reflect |-> 0, refract |-> 0, glint |-> 0]

\* main.rs refract (lines 79-95), on cosi = incident . normal and the
\* refractive index, both in percent: None when k < 0.  With eta = etai / etat,
\* k = 1 - eta^2 (1 - cosi^2); a refractive index of 0 entered from outside
\* gives eta = inf and k = -inf, or k = NaN (not < 0) when cosi^2 = 1
refract(cosi, refractive_index) ==
    IF cosi > 0
    THEN [some |-> ~(refractive_index * refractive_index * (100 * 100 - cosi * cosi)
                        > 100 * 100 * 100 * 100)]
    ELSE IF refractive_index = 0
    THEN [some |-> cosi * cosi = 100 * 100]
    ELSE [some |-> ~(100 * 100 - cosi * cosi > refractive_index * refractive_index)]

\* Variant of the refraction leg that casts no ray when refract gives None
LegRayOrNone(r) == IF r.some THEN "refracted" ELSE "zero"

\* Lines 203-210: the ray the refraction leg casts: the refracted direction, or
\* the mirror direction when refract gives None
LegRay(r) == IF r.some THEN "refracted" ELSE "mirror"

\* Lines 186-187, 245-246: the weights of the terms of the returned colour,
\* phong_color * k_phong + reflect_color * reflectivity
\* + refract_color * transparency + glint.  The Phong weights are those of the
\* diffuse and of the specular part; the glint is light_color * s with
\* s = gain * intensity * align^800 * refl_bias (lines 231, 239), kept as
\* refl_bias when the light is aligned and not occluded, 0 otherwise
Composite(hit, glint_on) ==
    [phong |-> <<KPhong(hit) * hit.material.albedo[1] * hit.coverage,
                 KPhong(hit) * hit.material.albedo[2] * hit.coverage>>,
     reflect |-> MaxInt(Reflectivity(hit), 0),
     refract |-> Transparency(hit),
     glint |-> IF glint_on THEN MinInt(Reflectivity(hit) + 5, 100) ELSE 0]

\* A cast_ray invocation at its entry; ray is the kind of ray it was called on
Frame(depth) ==
    [depth |-> depth,
     ray |-> "primary",
     at |-> "enter",
     hit |-> IntersectEmpty,
     grid_queries |-> 0,
     reflect_calls |-> 0,
     refract_calls |-> 0,
     leg |-> "none",
     reflect_color |-> ZeroColour,
     refract_color |-> ZeroColour,
     terms |-> NoTerms,
     result |-> "none"]

\* The values incident . normal takes at a hit, in percent
CosIs == {-100, -50, 0, 50, 100}

Top == stack[Len(stack)]

SetTop(f) == [stack EXCEPT ![Len(stack)] = f]

\* Lines 135-159: after accel.trace; a hit goes on to cast_shadow (one occluded
\* query), a miss returns the background
Shade(f, hit) ==
    IF ~hit.is_intersecting
    THEN [f EXCEPT !.hit = hit, !.grid_queries = @ + 1,
                   !.at = "return", !.result = "background"]
    ELSE [f EXCEPT !.hit = hit, !.grid_queries = @ + 2, !.at = "reflect"]

CastInit ==
    /\ objects = RenderScene
    /\ accel = build(objects, DesiredCellSize)
    /\ camera = CameraNew
    /\ light \in {LightDirectional, [LightDirectional EXCEPT !.kind = "Point"]}
    /\ builder = BuildStateNew
    /\ q \in {[preview |-> pv] : pv \in {None, Some([hovered_idx |-> 0])}}
    /\ dda = NoDda
    /\ pc = "cast"
    /\ workers = NoWorkers
    /\ rend = NoRend
    /\ fb = FramebufferNew(1, 1)
    /\ stack = <<Frame(0)>>

\* Lines 131-153: the depth test, the trace and the miss test
CastEnter ==
    /\ pc = "cast"
    /\ Top.at = "enter"
    /\ IF DepthExceeded(Top.depth)
       THEN stack' = SetTop([Top EXCEPT !.at = "return", !.result = "background"])
       ELSE \E found \in TraceOutcomes :
               stack' = SetTop(Shade(Top, PreviewOverride(found, q.preview)))
    /\ UNCHANGED <<objects, accel, camera, light, builder, q, dda, pc, workers, rend, fb>>

\* Lines 194-200: the reflection call
CastReflect ==
    /\ pc = "cast"
    /\ Top.at = "reflect"
    /\ Reflectivity(Top.hit) > 0 => Top.depth < DepthCap
    /\ stack' = IF Reflectivity(Top.hit) > 0
                THEN Append(SetTop([Top EXCEPT !.at = "reflected", !.reflect_calls = @ + 1]),
                            [Frame(Top.depth + 1) EXCEPT !.ray = "mirror"])
                ELSE SetTop([Top EXCEPT !.at = "refract"])
    /\ UNCHANGED <<objects, accel, camera, light, builder, q, dda, pc, workers, rend, fb>>

\* Lines 203-210: the call of the refraction leg, given what refract returned
RefractLeg(f, r) ==
    IF LegRay(r) = "zero"
    THEN <<[f EXCEPT !.at = "glint",
                     !.leg = IF r.some THEN "refracted" ELSE "total_internal_reflection"]>>
    ELSE <<[f EXCEPT !.at = "refracted",
                     !.refract_calls = @ + 1,
                     !.leg = IF r.some THEN "refracted" ELSE "total_internal_reflection"],
           [Frame(f.depth + 1) EXCEPT !.ray = LegRay(r)]>>

\* Lines 202-214: the refraction leg; refract gives a direction or None, and
\* either way one call follows
CastRefract ==
    /\ pc = "cast"
    /\ Top.at = "refract"
    /\ Transparency(Top.hit) > 0 => Top.depth < DepthCap
    /\ IF Transparency(Top.hit) > 0
       THEN \E cosi \in CosIs :
               stack' = SubSeq(stack, 1, Len(stack) - 1)
                          \o RefractLeg(Top, refract(cosi, Top.hit.material.refractive_index))
       ELSE stack' = SetTop([Top EXCEPT !.at = "glint"])
    /\ UNCHANGED <<objects, accel, camera, light, builder, q, dda, pc, workers, rend, fb>>

\* Lines 216-246: the glint; accel.occluded is queried when the mirror
\* direction faces the light
CastGlint ==
    /\ pc = "cast"
    /\ Top.at = "glint"
    /\ \E aligned \in BOOLEAN, seen \in BOOLEAN :
          stack' = SetTop([Top EXCEPT !.grid_queries = IF aligned THEN @ + 1 ELSE @,
                                      !.at = "return",
                                      !.terms = Composite(Top.hit, aligned /\ seen),
                                      !.result = "shaded"])
    /\ UNCHANGED <<objects, accel, camera, light, builder, q, dda, pc, workers, rend, fb>>

\* The caller resumes after the call it was waiting on, with the callee's
\* colour as reflect_color or as refract_color
Resume(f, callee) ==
    IF f.at = "reflected"
    THEN [f EXCEPT !.at = "refract",
                   !.reflect_color = [ray |-> callee.ray, depth |-> callee.depth]]
    ELSE [f EXCEPT !.at = "glint",
                   !.refract_color = [ray |-> callee.ray, depth |-> callee.depth]]

\* a recursive call returns to its caller
CastReturn ==
    /\ pc = "cast"
    /\ Top.at = "return"
    /\ Len(stack) > 1
    /\ stack' = Append(SubSeq(stack, 1, Len(stack) - 2), Resume(stack[Len(stack) - 1], Top))
    /\ UNCHANGED <<objects, accel, camera, light, builder, q, dda, pc, workers, rend, fb>>

\* the call at depth 0 returns the pixel's colour
CastReturnRoot ==
    /\ pc = "cast"
    /\ Top.at = "return"
    /\ Len(stack) = 1
    /\ stack' = NoStack
    /\ pc' = "done"
    /\ UNCHANGED <<objects, accel, camera, light, builder, q, dda, workers, rend, fb>>

CastNext ==
    \/ CastEnter
    \/ CastReflect
    \/ CastRefract
    \/ CastGlint
    \/ CastReturn
    \/ CastReturnRoot

\* a thread that can take a step takes one
SpecCast == CastInit /\ [][CastNext]_vars /\ WF_vars(CastNext)

CastBounded ==
    \A i \in 1..Len(stack) :
        /\ stack[i].depth = i - 1
        /\ stack[i].depth <= MAX_DEPTH + 1
        /\ stack[i].reflect_calls <= 1
        /\ stack[i].refract_calls <= 1
        /\ stack[i].depth > MAX_DEPTH =>
              /\ i = Len(stack)
              /\ stack[i].at \in {"enter", "return"}
              /\ stack[i].grid_queries = 0
              /\ stack[i].reflect_calls = 0
              /\ stack[i].refract_calls = 0
              /\ stack[i].at = "return" => stack[i].result = "background"

(* C10: a cast_ray call started at depth 0 returns; a call with depth > 3
   returns the background without a grid query or a recursive call; a shaded
   hit makes at most one reflection call and one refraction-leg call, each at
   depth + 1; no call has a depth above 4. *)
C10_CastRayTerminates == []CastBounded /\ <>(pc = "done")

C10_Witness ==
    /\ pc = "cast"
    /\ Len(stack) = 5
    /\ stack[5].depth = 4
    /\ stack[5].at = "return"
    /\ stack[5].result = "background"
    /\ stack[5].grid_queries = 0
    /\ stack[4].at = "refracted"
    /\ stack[4].reflect_calls = 1
    /\ stack[4].refract_calls = 1

-----------------------------------------------------------------------------
(* SpecCalls: single calls of the program's functions.  Init draws the call  *)
(* and its arguments, the action of a function applies it and stores what it *)
(* returns in q.result.                                                     *)

\* palette.rs with_same_texture_image_alpha (cutout by image alpha)
with_same_texture_image_alpha(mat, tex, th) ==
    [material |-> mat,
     face_textures |-> [f \in 1..6 |-> FaceStyle(tex, "ImageAlphaCutout", th)]]

\* palette.rs with_same_texture_tinted_image_alpha
with_same_texture_tinted_image_alpha(mat, tex, th) ==
    [material |-> mat,
     face_textures |->
        [f \in 1..6 |-> FaceStyle(tex, "GrayscaleTintImageAlphaCutout", th)]]

\* palette.rs with_same_texture_tinted_image_alpha_window
with_same_texture_tinted_image_alpha_window(mat, tex, th) ==
    [material |-> mat,
     face_textures |->
        [f \in 1..6 |-> FaceStyle(tex, "GrayscaleTintImageAlphaWindow", th)]]

\* A 2 x 2 texture whose alphas lie below, on and above the threshold 5
TexAlpha ==
    Texture(2, 2, <<Texel(80, 0), Texel(80, 5), Texel(80, 40), Texel(80, 100)>>)

CubeTemplates ==
    { Palette["X"],
      with_same_texture_image_alpha(Material(<<92, 8, 0, 0>>, 0), TexAlpha, 5),
      with_same_texture_tinted_image_alpha(Material(<<92, 8, 0, 0>>, 0), TexAlpha, 5),
      with_same_texture_image_alpha_window(Material(<<80, 15, 6, 0>>, 150), TexAlpha, 5),
      with_same_texture_tinted_image_alpha_window(Material(<<80, 15, 6, 0>>, 150),
                                                  TexAlpha, 5) }

\* The unit cube centred at the origin, one per template
CallCubes == {make_block_from_palette(<<0, 0, 0>>, CubeSize, tpl) : tpl \in CubeTemplates}

\* Ray origins: each coordinate outside the cube, at a quarter of its width or
\* on the plane of its upper face
CallOrigins ==
    {V3(x, y, z) : x \in {-(3 * UNIT) \div 2, -(UNIT \div 4), UNIT \div 4, UNIT \div 2},
                   y \in {-(3 * UNIT) \div 2, -(UNIT \div 4), UNIT \div 4, UNIT \div 2},
                   z \in {-(3 * UNIT) \div 2, -(UNIT \div 4), UNIT \div 4, UNIT \div 2}}

RayIntersectCalls ==
    {[kind |-> "ray_intersect", cube |-> c, ro |-> ro, rd |-> rd,
      result |-> IntersectEmpty] : c \in CallCubes, ro \in CallOrigins, rd \in Dirs}

\* Cube::ray_intersect on the drawn cube and ray
CallRayIntersect ==
    /\ pc = "call"
    /\ q.kind = "ray_intersect"
    /\ q' = [q EXCEPT !.result = ray_intersect(q.cube, q.ro, q.rd)]
    /\ pc' = "ret"
    /\ UNCHANGED <<objects, accel, camera, light, builder, dda, workers, rend, fb, stack>>

Returned_ray_intersect == pc = "ret" /\ q.kind = "ray_intersect"

StrictlyInside(c, ro) ==
    \A a \in Axes : FLt(FInt(c.min[a]), ro[a]) /\ FLt(ro[a], FInt(c.max[a]))

\* The outward normals of the faces through which the ray leaves the cube: on
\* each axis that attains t_exit, the unit vector signed with the direction
ExitNormals(c, ro, rd) ==
    {[b \in Axes |-> IF b = a THEN Sgn(rd[a]) ELSE 0] :
        a \in {x \in Axes : rd[x] # 0
                            /\ FEq(SlabMaxs(c, ro, rd)[x], FMin3(SlabMaxs(c, ro, rd)))}}

\* The distance half of C11: from inside, a hit lies at the exit distance
InsideHitAtExitDistance ==
    (Returned_ray_intersect /\ StrictlyInside(q.cube, q.ro) /\ q.result.is_intersecting)
        => FEq(q.result.distance, FMin3(SlabMaxs(q.cube, q.ro, q.rd)))

\* C11: for a ray whose origin lies strictly inside an opaque cube,
\* Cube::ray_intersect returns a hit at the exit distance t_exit whose normal is
\* the outward normal of the face through which the ray exits.
C11_InsideHitExitsThroughOutwardFace ==
    (Returned_ray_intersect /\ StrictlyInside(q.cube, q.ro)
        /\ q.cube.face_textures = Palette["X"].face_textures)
        => /\ q.result.is_intersecting
           /\ FEq(q.result.distance, FMin3(SlabMaxs(q.cube, q.ro, q.rd)))
           /\ q.result.normal \in ExitNormals(q.cube, q.ro, q.rd)

(* The record of a hit (C24) and the face of an entry from outside (C25). *)

\* The six axis-aligned unit vectors
Cardinals == {FaceNormal(f) : f \in 1..6}

\* C24: every hit returned by Cube::ray_intersect with is_intersecting = true has
\* distance >= 0, a normal that is exactly one of the six axis-aligned unit
\* vectors, and coverage in [0, 1].
C24_HitRecordWellFormed ==
    (Returned_ray_intersect /\ q.result.is_intersecting)
        => /\ FGe(q.result.distance, FZero)
           /\ IsFinite(q.result.distance)
           /\ q.result.normal \in Cardinals
           /\ q.result.coverage \in 0..100

\* A hit from inside the cube on a window texel of coverage 0.4
C24_Witness ==
    /\ Returned_ray_intersect
    /\ StrictlyInside(q.cube, q.ro)
    /\ q.result.is_intersecting
    /\ FGt(q.result.distance, FZero)
    /\ q.result.coverage = 40

\* The origin lies outside the closed cube
Outside(c, ro) ==
    \E a \in Axes : FLt(ro[a], FInt(c.min[a])) \/ FGt(ro[a], FInt(c.max[a]))

\* The axes whose tmin equals t_enter
EntryAxes(c, ro, rd) ==
    {a \in Axes : FEq(SlabMins(c, ro, rd)[a], FMax3(SlabMins(c, ro, rd)))}

\* The axis of a cardinal normal
AxisOf(n) == CHOOSE a \in Axes : n[a] # 0

\* C25: for a ray starting outside a cube, the hit face chosen by
\* Cube::ray_intersect is on the axis whose tmin equals t_enter, and when several
\* axes tie at t_enter (entry through an edge or a corner) the face is chosen
\* with priority X over Y over Z.
C25_EntryFaceXBeforeYBeforeZ ==
    (Returned_ray_intersect /\ Outside(q.cube, q.ro) /\ q.result.is_intersecting)
        => /\ EntryAxes(q.cube, q.ro, q.rd) # {}
           /\ AxisOf(q.result.normal) = MinOf(EntryAxes(q.cube, q.ro, q.rd))

\* An entry through the edge shared by the Y and Z faces: the Y face is hit
C25_Witness ==
    /\ Returned_ray_intersect
    /\ Outside(q.cube, q.ro)
    /\ q.result.is_intersecting
    /\ EntryAxes(q.cube, q.ro, q.rd) = {2, 3}
    /\ q.result.normal = <<0, -1, 0>>

CutoutStyles == {"ImageAlphaCutout", "GrayscaleTintImageAlphaCutout"}
WindowStyles == {"ImageAlphaWindow", "GrayscaleTintImageAlphaWindow"}

\* The slab test of a call passes and its hit distance is finite (lines 127-130)
GeomHitAt(t_enter, t_exit) ==
    /\ ~(FLt(t_exit, FZero) \/ FGt(t_enter, t_exit))
    /\ IsFinite(IF FGt(t_enter, FZero) THEN t_enter ELSE t_exit)

GeomHit(c, ro, rd) == GeomHitAt(FMax3(SlabMins(c, ro, rd)), FMin3(SlabMaxs(c, ro, rd)))

\* The texel of the face layer under the hit point of a ray that passes the
\* slab test
TexelUnder(c, face, uv) == sample_clamp_rgba(c.face_textures[face].tex, uv[1], uv[2])

TexelOnFace(c, face, p) == TexelUnder(c, face, FaceUV(c, face, p))

TexelAtT(c, ro, rd, tmin, t_enter, t_exit) ==
    TexelOnFace(c, PickFace(t_enter, tmin, rd),
                PointAt(ro, rd, IF FGt(t_enter, FZero) THEN t_enter ELSE t_exit))

TexelFrom(c, ro, rd, tmin, tmax) == TexelAtT(c, ro, rd, tmin, FMax3(tmin), FMin3(tmax))

HitTexel(c, ro, rd) == TexelFrom(c, ro, rd, SlabMins(c, ro, rd), SlabMaxs(c, ro, rd))

\* What C12 says of a result r, for a face layer of the given style and
\* threshold and the texel of alpha a under the hit point
StyledAsClaimed(r, style, threshold, a) ==
    /\ (style \in CutoutStyles /\ a <= threshold) => ~r.is_intersecting
    /\ (style \in CutoutStyles /\ a > threshold) =>
            (r.is_intersecting /\ r.coverage = 100)
    /\ (style \in WindowStyles /\ a <= threshold) =>
            (r.is_intersecting /\ r.coverage = 0)
    /\ (style \in WindowStyles /\ a > threshold) =>
            (r.is_intersecting /\ r.coverage = a)

\* C12: for a face texel whose alpha is <= threshold, the ImageAlphaCutout styles
\* make ray_intersect report a miss and the ImageAlphaWindow styles a hit with
\* coverage 0; for alpha > threshold the cutout styles give coverage 1 and the
\* window styles give coverage equal to alpha.
C12_CutoutMissesWindowCovers ==
    (Returned_ray_intersect /\ GeomHit(q.cube, q.ro, q.rd)
        /\ q.cube.face_textures[1].style \in CutoutStyles \cup WindowStyles)
        => StyledAsClaimed(q.result, q.cube.face_textures[1].style,
                           q.cube.face_textures[1].threshold,
                           HitTexel(q.cube, q.ro, q.rd).a)

\* A window face hit on a texel whose alpha equals the threshold: coverage 0
C12_Witness ==
    /\ Returned_ray_intersect
    /\ GeomHit(q.cube, q.ro, q.rd)
    /\ q.cube.face_textures[1].style \in WindowStyles
    /\ HitTexel(q.cube, q.ro, q.rd).a = q.cube.face_textures[1].threshold
    /\ q.result.is_intersecting
    /\ q.result.coverage = 0

\* Light::at for a light whose direction from the point is along one axis (the
\* lights drawn here): the unit vector towards the light and the distance
at(l, point) ==
    IF l.kind = "Point"
    THEN LET to == [a \in Axes |-> FSub(FInt(l.position[a]), point[a])]
             dist == FAdd(FAdd(Norm(Abs(to[1][1]), to[1][2]), Norm(Abs(to[2][1]), to[2][2])),
                          Norm(Abs(to[3][1]), to[3][2]))
         IN  IF FGt(dist, FZero)
             THEN [dir |-> [a \in Axes |-> Sgn(to[a][1])], dist |-> dist]
             ELSE [dir |-> <<0, -1, 0>>, dist |-> FZero]
    ELSE [dir |-> [a \in Axes |-> -l.direction[a]], dist |-> FInf]

\* main.rs offset_origin
offset_origin(intersect, direction) ==
    IF direction[1] * intersect.normal[1] + direction[2] * intersect.normal[2]
            + direction[3] * intersect.normal[3] < 0
    THEN [a \in Axes |-> FSub(intersect.point[a], FInt(intersect.normal[a] * ORIGIN_BIAS))]
    ELSE [a \in Axes |-> FAdd(intersect.point[a], FInt(intersect.normal[a] * ORIGIN_BIAS))]

ShadowToward(intersect, la, objs, g) ==
    IF occluded(g, offset_origin(intersect, la.dir), la.dir, la.dist, objs)
    THEN 100 ELSE 0

\* main.rs cast_shadow: 1.0 (here 100) if the shadow ray is occluded
cast_shadow(intersect, l, objs, g) == ShadowToward(intersect, at(l, intersect.point), objs, g)

\* An opaque cube with a glass cube one cell above it: the layers "X", " ", "G"
ShadowScene ==
    SceneOf(<< << <<"X">> >>, << <<" ">> >>, << <<"G">> >> >>)

\* Shaded points on the top face of the lower cube
ShadowPoints ==
    {[point |-> V3(x, 0, z), normal |-> <<0, 1, 0>>] :
        x \in {-(UNIT \div 4), UNIT \div 4}, z \in {-(UNIT \div 4), UNIT \div 4}}

\* A sun straight above, a sun on the horizon, and point lights straight above
\* the shaded point, below and above the glass cube
ShadowLights(p) ==
    {[kind |-> "Directional", position |-> <<0, 0, 0>>, direction |-> <<0, -1, 0>>],
     [kind |-> "Directional", position |-> <<0, 0, 0>>, direction |-> <<-1, 0, 0>>]}
    \cup {[kind |-> "Point", position |-> <<p.point[1][1], h, p.point[3][1]>>,
           direction |-> <<0, 0, 0>>] : h \in {UNIT \div 2, 3 * UNIT}}

CastShadowCalls ==
    {[kind |-> "cast_shadow", intersect |-> c[1], light |-> c[2], result |-> 0] :
        c \in UNION {{<<p, l>> : l \in ShadowLights(p)} : p \in ShadowPoints}}

\* cast_shadow for the drawn point and light, over the shadow scene and its grid
CallCastShadow ==
    /\ pc = "call"
    /\ q.kind = "cast_shadow"
    /\ objects' = ShadowScene
    /\ accel' = build(objects', DesiredCellSize)
    /\ q' = [q EXCEPT !.result = cast_shadow(q.intersect, q.light, objects', accel')]
    /\ pc' = "ret"
    /\ UNCHANGED <<camera, light, builder, dda, workers, rend, fb, stack>>

\* Some object's surface of coverage above 0 lies on the shadow ray, within
\* (eps, max_t)
CoveredOccluder(objs, ro, la) ==
    \E k \in 1..Len(objs) :
        /\ Blocks(ray_intersect(objs[k], ro, la.dir), la.dist)
        /\ ray_intersect(objs[k], ro, la.dir).coverage > 0

\* C13: shadow queries ignore window surfaces: a point is in shadow only if some
\* surface whose hit has coverage above 0 lies between it and the light; a hit
\* of coverage 0 is not counted as an occluder.
C13_ShadowIgnoresWindowSurfaces ==
    (pc = "ret" /\ q.kind = "cast_shadow" /\ q.result = 100)
        => CoveredOccluder(objects,
                           offset_origin(q.intersect, at(q.light, q.intersect.point).dir),
                           at(q.light, q.intersect.point))

\* f32::signum: 1.0 for +0.0 and every positive number, -1.0 for a negative one
\* (the components of a face normal are 1.0, -1.0 and +0.0)
signum(x) == IF x < 0 THEN -1 ELSE 1

\* build.rs snap_to_grid_center: the centre of the grid cell that holds p
snap_to_grid_center(p, size, origin) ==
    [a \in Axes |->
        origin[a] + FFloorI32(FDiv(FSub(p[a], FInt(origin[a])), size[a])) * size[a]
            + size[a] \div 2]

\* let eps = Vector3::new(1e-3, 1e-3, 1e-3), in model units
PUSH_EPS == 10

\* build.rs adjacent_cell_center: push the hit point along the normal by half a
\* cube plus eps = 1e-3 on every axis, then snap
adjacent_cell_center(hit_point, normal, cube_size, grid_origin) ==
    snap_to_grid_center(
        [a \in Axes |-> FAdd(hit_point[a],
                             FInt(signum(normal[a]) * (cube_size[a] \div 2 + PUSH_EPS)))],
        cube_size, grid_origin)

\* Hit points on the faces of the unit cube centred at the origin, with the
\* normal of the face, and the grid origins the placement is computed for
FaceHitPoints ==
    {[point |-> [a \in Axes |-> FInt(IF FaceNormal(f)[a] # 0
                                     THEN FaceNormal(f)[a] * (UNIT \div 2)
                                     ELSE IF a = 2 THEN u ELSE v)],
      normal |-> FaceNormal(f)] :
        f \in 1..6, u \in {-(UNIT \div 4), 0, UNIT \div 4}, v \in {-(UNIT \div 4), 0}}

CellOrigins == {<<x, y, z>> : x \in {-(UNIT \div 2), 0}, y \in {-(UNIT \div 2), 0},
                              z \in {-(UNIT \div 2), 0}}

PlacementCalls ==
    {[kind |-> k, hit_point |-> h.point, normal |-> h.normal, size |-> CubeSize,
      origin |-> o, result |-> <<0, 0, 0>>] :
        k \in {"adjacent_cell_center", "neighbor_cell_center_from_face_hit"},
        h \in FaceHitPoints, o \in CellOrigins}

\* build.rs adjacent_cell_center on the drawn hit
CallAdjacentCellCenter ==
    /\ pc = "call"
    /\ q.kind = "adjacent_cell_center"
    /\ q' = [q EXCEPT !.result = adjacent_cell_center(q.hit_point, q.normal, q.size, q.origin)]
    /\ pc' = "ret"
    /\ UNCHANGED <<objects, accel, camera, light, builder, dda, workers, rend, fb, stack>>

\* main.rs neighbor_cell_center_from_face_hit on the drawn hit
CallNeighborCellCenter ==
    /\ pc = "call"
    /\ q.kind = "neighbor_cell_center_from_face_hit"
    /\ q' = [q EXCEPT !.result = neighbor_cell_center_from_face_hit(q.hit_point, q.normal,
                                                                   q.size, q.origin)]
    /\ pc' = "ret"
    /\ UNCHANGED <<objects, accel, camera, light, builder, dda, workers, rend, fb, stack>>

\* C15: the adjacent-cell computation, called with hit point (0.5, 0, 0), hit
\* normal +X and cube size (1, 1, 1) for a unit cube centred at the origin,
\* yields the placed block centre (1.5, 0, 0).
C15_AdjacentCellOfPlusXFace ==
    (/\ pc = "ret"
     /\ q.kind = "adjacent_cell_center"
     /\ q.hit_point = V3(UNIT \div 2, 0, 0)
     /\ q.normal = <<1, 0, 0>>
     /\ q.size = CubeSize)
        => q.result = <<UNIT + UNIT \div 2, 0, 0>>

\* The same statement for the function main() calls on a left click, with the
\* grid origin main() passes
NeighborCellOfPlusXFace ==
    (/\ pc = "ret"
     /\ q.kind = "neighbor_cell_center_from_face_hit"
     /\ q.hit_point = V3(UNIT \div 2, 0, 0)
     /\ q.normal = <<1, 0, 0>>
     /\ q.origin = SceneParams.origin)
        => q.result = <<UNIT + UNIT \div 2, 0, 0>>

\* adjacent_cell_center never yields the claimed centre, whatever the grid origin
AdjacentCellNeverClaimed ==
    (/\ pc = "ret"
     /\ q.kind = "adjacent_cell_center"
     /\ q.hit_point = V3(UNIT \div 2, 0, 0)
     /\ q.normal = <<1, 0, 0>>)
        => q.result # <<UNIT + UNIT \div 2, 0, 0>>

(* Scene loading: the loader alone on one layer file (C19) and main's start-up *)
(* around it (C18).                                                            *)

MaxRows == 2           \* rows of a layer file
MaxCols == 2           \* characters of a row

\* Characters of the layer files: blank, the slab characters, a palette
\* character and a character that is in no palette
LayerChars == {" ", "_", "-", "X", "Z"}

LayerRows == UNION {[1..n -> LayerChars] : n \in 0..MaxCols}

LayerGrids == UNION {[1..n -> LayerRows] : n \in 1..MaxRows}

\* main's parameters, every visible character solid, and 'Z' declared solid
LoaderParams ==
    {SceneParams,
     [SceneParams EXCEPT !.any_non_whitespace_is_solid = TRUE],
     [SceneParams EXCEPT !.solid_chars = {"Z"}]}

LoadCalls ==
    {[kind |-> "load", dir |-> DirOf(<<g>>), grid |-> g, params |-> p, result |-> Err] :
        g \in LayerGrids, p \in LoaderParams}

\* Directories main() can find at assets/scene: unreadable, empty, holding no
\* .txt file, a blank .txt file, an unreadable .txt file, a layer without a
\* solid character, one layer, two layers given out of order
StartupDirs ==
    {[readable |-> FALSE, entries |-> {}],
     [readable |-> TRUE, entries |-> {}],
     [readable |-> TRUE,
      entries |-> {[path |-> 1, txt |-> FALSE, readable |-> TRUE, lines |-> << <<"X">> >>]}],
     [readable |-> TRUE,
      entries |-> {[path |-> 1, txt |-> TRUE, readable |-> TRUE, lines |-> << <<" ">>, <<>> >>]}],
     [readable |-> TRUE,
      entries |-> {[path |-> 1, txt |-> TRUE, readable |-> FALSE, lines |-> <<>>]}],
     DirOf(<< << <<"Z", " ">> >> >>),
     DirOf(<< << <<"X">> >> >>),
     [readable |-> TRUE,
      entries |-> {[path |-> 2, txt |-> TRUE, readable |-> TRUE, lines |-> << <<"G">> >>],
                   [path |-> 1, txt |-> TRUE, readable |-> TRUE, lines |-> << <<"X", "_">> >>]}]}

StartupCalls == {[kind |-> "startup", dir |-> d] : d \in StartupDirs}

\* load_ascii_layers_with_palette on one layer file
CallLoad ==
    /\ pc = "call"
    /\ q.kind = "load"
    /\ q' = [q EXCEPT !.result = load_ascii_layers_with_palette(q.dir, q.params)]
    /\ pc' = "ret"
    /\ UNCHANGED <<objects, accel, camera, light, builder, dda, workers, rend, fb, stack>>

\* .expect("Error leyendo assets/scene") (main.rs 446): Err panics
Expect(r) == r.ok

\* main.rs 443-449: load the scene or panic, then build the grid and go on to
\* the render loop
MainStartup ==
    /\ pc = "call"
    /\ q.kind = "startup"
    /\ IF Expect(load_ascii_layers_with_palette(q.dir, SceneParams))
       THEN /\ objects' = load_ascii_layers_with_palette(q.dir, SceneParams).val
            /\ accel' = build(objects', DesiredCellSize)
            /\ pc' = "main_loop"
       ELSE /\ pc' = "fatal"
            /\ UNCHANGED <<objects, accel>>
    /\ UNCHANGED <<camera, light, builder, q, dda, workers, rend, fb, stack>>

\* There is a layer file that yields an object with main's parameters
Usable(dir) ==
    \E e \in dir.entries :
        /\ e.txt
        /\ \E r \in 1..Len(e.lines) : \E c \in 1..Len(e.lines[r]) :
              Solid(e.lines[r][c], SceneParams)

\* C18: scene loading fails fatally at start-up both when the scene directory is
\* unreadable and when it contains no usable layer files; the program never goes
\* on to render an empty scene.
C18_NoEmptySceneIsRendered ==
    (q.kind = "startup" /\ pc # "call")
        => /\ (~q.dir.readable \/ ~Usable(q.dir)) => pc = "fatal"
           /\ pc = "main_loop" => objects # <<>>

\* The unreadable half of C18: an unreadable directory or layer file is fatal
UnreadableIsFatal ==
    (q.kind = "startup" /\ pc # "call"
        /\ (~q.dir.readable \/ \E e \in q.dir.entries : e.txt /\ ~e.readable))
        => pc = "fatal"

\* What C19 says a character produces: the shape, and whether the material and
\* the face textures are those of its palette template
Claimed(ch, params) ==
    IF ch = " " THEN <<>>
    ELSE IF ch = "_" THEN <<[shape |-> "bottom half-slab", of |-> ch]>>
    ELSE IF ch = "-" THEN <<[shape |-> "top half-slab", of |-> ch]>>
    ELSE IF ch \in PaletteChars THEN <<[shape |-> "cube", of |-> ch]>>
    ELSE IF params.any_non_whitespace_is_solid \/ ch \in params.solid_chars
    THEN <<[shape |-> "cube", of |-> ch]>>
    ELSE <<>>

\* The claimed objects of a grid, row by row and column by column over the rows
\* padded to the widest one; blank rows at either end are not part of the grid
RECURSIVE ClaimedCells(_, _, _, _, _)
ClaimedCells(rows, cols, r, c, params) ==
    IF r > Len(rows) THEN <<>>
    ELSE IF c > cols THEN ClaimedCells(rows, cols, r + 1, 1, params)
    ELSE Claimed(CellChar(rows, r, c), params)
            \o ClaimedCells(rows, cols, r, c + 1, params)

ClaimedGrid(rows, params) ==
    IF rows = <<>> THEN <<>>
    ELSE ClaimedCells(rows, MaxOf({Len(rows[k]) : k \in 1..Len(rows)}), 1, 1, params)

\* The shape of a loaded object and the character whose template (or, without
\* one, the default material) it carries
Loaded(obj, ch) ==
    /\ obj.material = (IF ch \in PaletteChars THEN Palette[ch].material
                       ELSE DefaultMaterial)
    /\ obj.face_textures = (IF ch \in PaletteChars THEN Palette[ch].face_textures
                            ELSE NoFaces)

ShapeOf(obj) ==
    IF "half" \notin DOMAIN obj THEN "cube"
    ELSE IF obj.half = "Bottom" /\ obj.max[2] - obj.min[2] = CubeSize[2] \div 2
    THEN "bottom half-slab"
    ELSE IF obj.half = "Top" /\ obj.max[2] - obj.min[2] = CubeSize[2] \div 2
    THEN "top half-slab"
    ELSE "other"

\* C19: for every layer character grid the scene builder produces exactly one
\* object per non-empty cell: ' ' produces nothing, '_' a bottom half-slab, '-' a
\* top half-slab, any other palette character a cube with that template, and a
\* character that is not in the palette nothing unless the configuration
\* (solid_chars / any_non_whitespace_is_solid) says otherwise.
C19_OneObjectPerNonEmptyCell ==
    (pc = "ret" /\ q.kind = "load")
        => /\ q.result.ok
           /\ Len(q.result.val) = Len(ClaimedGrid(TrimBlank(q.grid), q.params))
           /\ \A i \in 1..Len(q.result.val) :
                 /\ ShapeOf(q.result.val[i])
                        = ClaimedGrid(TrimBlank(q.grid), q.params)[i].shape
                 /\ Loaded(q.result.val[i],
                           ClaimedGrid(TrimBlank(q.grid), q.params)[i].of)

\* A grid with a blank, both slabs, a palette cube and an unknown character,
\* loaded with main's parameters: three objects
C19_Witness ==
    /\ pc = "ret"
    /\ q.kind = "load"
    /\ q.params = SceneParams
    /\ q.grid = << <<"_", "Z">>, <<"-", "X">> >>
    /\ Len(q.result.val) = 3
    /\ ShapeOf(q.result.val[1]) = "bottom half-slab"
    /\ ShapeOf(q.result.val[2]) = "top half-slab"
    /\ ShapeOf(q.result.val[3]) = "cube"

(* The any-hit query along a segment and along the segment reversed (C22). *)

\* Scenes of opaque cubes: one cube, and two cubes one cell apart
SegmentScenes ==
    {SceneOf(<< << <<"X">> >> >>), SceneOf(<< << <<"X", " ", "X">> >> >>)}

\* End points: outside the cubes, inside one, on a face plane, and one eps and
\* less than one eps off the planes x = 0.5 and y = 0 from either side
SegmentPoints ==
    {<<x, y, 0>> : x \in {-2 * UNIT, 0, UNIT \div 2 - EPS, UNIT \div 2, UNIT \div 2 + EPS, 2 * UNIT},
                   y \in {-(UNIT \div 2), -EPS, 0, UNIT \div 2}}

\* End points on the half-cell lattice, for the diagonal segments
LatticePoints ==
    {<<x, y, z>> : x \in {-UNIT, -(UNIT \div 2), 0, UNIT \div 2, UNIT},
                   y \in {-UNIT - UNIT \div 2, -UNIT, -(UNIT \div 2), 0, UNIT \div 2},
                   z \in {0, UNIT \div 2}}

\* The components of p - o that are not 0, as magnitudes
Spans(o, p) == {Abs(p[a] - o[a]) : a \in Axes} \ {0}

\* The pairs O # P along an axis, and the lattice pairs along a diagonal
SegmentEnds ==
    {s \in SegmentPoints \X SegmentPoints :
        Cardinality({a \in Axes : s[1][a] # s[2][a]}) = 1}
    \cup {s \in LatticePoints \X LatticePoints :
             /\ Cardinality({a \in Axes : s[1][a] # s[2][a]}) > 1
             /\ Cardinality(Spans(s[1], s[2])) = 1}

\* The direction from o to p as a vector of signs.  Along an axis this is
\* normalize(p - o); along a diagonal it is normalize(p - o) times sqrt(2) or
\* sqrt(3), every distance and max_t are counted in that unit, and no lattice
\* segment has a hit at a distance in (0, eps] where the unit would matter to
\* the comparison with eps
SegmentDir(o, p) == [a \in Axes |-> Sgn(p[a] - o[a])]

\* |p - o| in the unit of SegmentDir
SegmentLen(o, p) == MaxOf(Spans(o, p))

SegmentCalls ==
    {[kind |-> "segment", scene |-> sc, o |-> s[1], p |-> s[2],
      forward |-> FALSE, backward |-> FALSE] :
        sc \in SegmentScenes, s \in SegmentEnds}

\* occluded(o, normalize(p - o), |p - o|) and occluded(p, normalize(o - p), |o - p|)
\* on the grid built for the scene
CallSegment ==
    /\ pc = "call"
    /\ q.kind = "segment"
    /\ objects' = q.scene
    /\ accel' = build(objects', DesiredCellSize)
    /\ q' = [q EXCEPT
               !.forward = occluded(accel', V3(q.o[1], q.o[2], q.o[3]), SegmentDir(q.o, q.p),
                                    FInt(SegmentLen(q.o, q.p)), objects'),
               !.backward = occluded(accel', V3(q.p[1], q.p[2], q.p[3]), SegmentDir(q.p, q.o),
                                     FInt(SegmentLen(q.o, q.p)), objects')]
    /\ pc' = "ret"
    /\ UNCHANGED <<camera, light, builder, dda, workers, rend, fb, stack>>

\* Some cube is hit at a distance in (0, eps] from o on the way to p
HitWithinEps(objs, o, p) ==
    \E k \in 1..Len(objs) :
        /\ ray_intersect(objs[k], V3(o[1], o[2], o[3]), SegmentDir(o, p)).is_intersecting
        /\ FGt(ray_intersect(objs[k], V3(o[1], o[2], o[3]), SegmentDir(o, p)).distance, FZero)
        /\ FLe(ray_intersect(objs[k], V3(o[1], o[2], o[3]), SegmentDir(o, p)).distance,
               FInt(EPS))

TraceScenes ==
    {SceneOf(<< << <<"X", "P">> >> >>),
     SceneOf(<< << <<"X", "P", "X">> >> >>),
     SceneOf(<< << <<"P", "X", "P">> >> >>)}

\* Origins a quarter of a cell off the cubes' shared faces, level with the
\* cubes' centres or above their tops, over the row or in front of it
TraceOrigins ==
    {V3(x, y, z) : x \in {-(3 * UNIT) \div 4, -(UNIT \div 4), UNIT \div 4, (3 * UNIT) \div 4},
                   y \in {-(UNIT \div 2), UNIT \div 4},
                   z \in {0, (3 * UNIT) \div 4}}

TraceCalls ==
    {[kind |-> "trace", scene |-> sc, ro |-> ro, rd |-> rd, result |-> IntersectEmpty] :
        sc \in TraceScenes, ro \in TraceOrigins, rd \in Dirs}

\* accel.trace on the grid built for the scene
CallTrace ==
    /\ pc = "call"
    /\ q.kind = "trace"
    /\ objects' = q.scene
    /\ accel' = build(objects', DesiredCellSize)
    /\ q' = [q EXCEPT !.result = trace(accel', q.ro, q.rd, objects')]
    /\ pc' = "ret"
    /\ UNCHANGED <<camera, light, builder, dda, workers, rend, fb, stack>>

\* The 1-based indices of the objects a linear scan finds at the minimum distance
Nearest(objs, ro, rd) ==
    {i \in LinearHits(objs, ro, rd) :
        ray_intersect(objs[i], ro, rd).distance = FMinOf(LinearDistances(objs, ro, rd))}

\* The cells of the grid that list object i (0-based)
CellsOf(g, i) == {c \in CellCoords(g) : i \in CellMembers(g, c)}

\* C27: when several objects listed in the same grid cell are hit at exactly the
\* same minimum distance, trace returns the hit of the one with the lowest scene
\* index.
C27_LowestIndexWinsTies ==
    (pc = "ret" /\ q.kind = "trace" /\ Cardinality(Nearest(objects, q.ro, q.rd)) > 1
        /\ \E c \in CellCoords(accel) :
              \A i \in Nearest(objects, q.ro, q.rd) : (i - 1) \in CellMembers(accel, c))
        => q.result = ray_intersect(objects[MinOf(Nearest(objects, q.ro, q.rd))], q.ro, q.rd)

\* The cells on the ray's way through the grid, in the order the walk visits them
RECURSIVE PathCells(_, _)
PathCells(g, st) ==
    IF st.status = "done" THEN <<>>
    ELSE <<st.cell>> \o PathCells(g, DdaAdvance(g, st))

\* The positions on the path of the cells that list an object of the set T
Listing(g, path, T) ==
    {k \in 1..Len(path) : \E i \in T : (i - 1) \in CellMembers(g, path[k])}

\* The object of T the walk tests first: the lowest index among those listed in
\* the first cell of the path that lists any
FirstOn(g, path, T) ==
    MinOf({i \in T : (i - 1) \in CellMembers(g, path[MinOf(Listing(g, path, T))])})

FirstMet(g, objs, ro, rd) ==
    FirstOn(g, PathCells(g, DdaSetup(g, ro, rd)), Nearest(objs, ro, rd))

\* trace returned a hit at the minimum distance, which several objects share
TieFound ==
    /\ pc = "ret"
    /\ q.kind = "trace"
    /\ Cardinality(Nearest(objects, q.ro, q.rd)) > 1
    /\ q.result.is_intersecting
    /\ q.result.distance = FMinOf(LinearDistances(objects, q.ro, q.rd))

\* C27 as amended: among objects hit at the same minimum distance the hit
\* returned is that of the one the walk tests first (cells in the order visited,
\* ascending index within a cell), which need not be the lowest index
C27_FirstTestedWinsTies ==
    TieFound => q.result = ray_intersect(objects[FirstMet(accel, objects, q.ro, q.rd)],
                                         q.ro, q.rd)

\* From inside the middle cube towards its neighbour of lower index: the exit
\* from the one and the entry into the other tie, and the middle cube's hit is
\* returned
C27_Witness ==
    /\ TieFound
    /\ Len(objects) = 3
    /\ Nearest(objects, q.ro, q.rd) = {1, 2}
    /\ FirstMet(accel, objects, q.ro, q.rd) = 2
    /\ q.result = ray_intersect(objects[2], q.ro, q.rd)
    /\ q.result # ray_intersect(objects[1], q.ro, q.rd)

CallInit ==
    /\ q \in RayIntersectCalls \cup CastShadowCalls \cup PlacementCalls
               \cup LoadCalls \cup StartupCalls \cup SegmentCalls
               \cup TraceCalls
    /\ pc = "call"
    /\ objects = <<>>
    /\ accel = NoDda
    /\ dda = NoDda
    /\ camera = CameraNew
    /\ light = LightDirectional
    /\ builder = BuildStateNew
    /\ workers = NoWorkers
    /\ rend = NoRend
    /\ fb = FramebufferNew(1, 1)
    /\ stack = NoStack

CallNext ==
    \/ CallRayIntersect
    \/ CallCastShadow
    \/ CallAdjacentCellCenter
    \/ CallNeighborCellCenter
    \/ CallLoad
    \/ MainStartup
    \/ CallSegment
    \/ CallTrace

SpecCalls == CallInit /\ [][CallNext]_vars

-----------------------------------------------------------------------------
(* The composite of a shaded hit (C14) and the refraction leg (C20), on SpecCast. *)

ShadedFrames == {i \in 1..Len(stack) : stack[i].at = "return" /\ stack[i].result = "shaded"}

C20_TotalInternalReflectionFallsBack ==
    \A i \in 1..Len(stack) :
        stack[i].leg = "total_internal_reflection" =>
            /\ stack[i].at \in {"refracted", "glint", "return"}
            /\ stack[i].refract_calls = 1
            /\ stack[i].at = "refracted" =>
                  /\ i < Len(stack)
                  /\ stack[i + 1].ray = "mirror"
                  /\ stack[i + 1].depth = stack[i].depth + 1
            /\ stack[i].at \in {"glint", "return"} =>
                  stack[i].refract_color = [ray |-> "mirror", depth |-> stack[i].depth + 1]
            /\ stack[i].at = "return" =>
                  (stack[i].result = "shaded"
                    /\ stack[i].terms.refract = Transparency(stack[i].hit))

\* The root call returns shaded after a total internal reflection in its leg
C20_Witness ==
    /\ pc = "cast"
    /\ Len(stack) = 1
    /\ Top.at = "return"
    /\ Top.result = "shaded"
    /\ Top.leg = "total_internal_reflection"
    /\ Top.refract_color = [ray |-> "mirror", depth |-> 1]

-----------------------------------------------------------------------------
(* SpecCamera: a camera built by Camera::new or Camera::from_spherical, then *)
(* up to MaxCalls calls of orbit, zoom, zoom_exp, set_center and set_config. *)

MaxCalls == 3          \* calls made on one camera

\* Configs with min <= max: the default, main's, a narrow one and a degenerate one
CameraConfigs ==
    {CameraConfigDefault, MainCameraConfig,
     [CameraConfigDefault EXCEPT !.min_pitch = -500, !.max_pitch = 500,
                                 !.min_distance = 10 * UNIT, !.max_distance = 20 * UNIT,
                                 !.orbit_sensitivity_yaw = 200],
     [CameraConfigDefault EXCEPT !.min_pitch = 100, !.max_pitch = 100,
                                 !.min_distance = UNIT, !.max_distance = UNIT]}

CameraEyes == {<<20, 10, 20>>, <<0, 0, -5>>, <<-3, 4, 0>>, <<0, 0, 0>>}

\* Arguments of from_spherical: distance, yaw, pitch
SphericalArgs ==
    {<<d, y, p>> : d \in {0, 6000 * UNIT}, y \in {PI_MILLI \div 4, 4000},
                   p \in {-2000, 340}}

DeltaYaws == {-3 * PI_MILLI, -ROTATION_SPEED, ROTATION_SPEED, 3 * PI_MILLI}
DeltaPitches == {-2000, 0, 2000}
ZoomAmounts == {-1000 * UNIT, ZOOM_STEP, 1000 * UNIT}
ZoomExpAmounts == {-1000, 100, 1000}
Centers == {<<0, 0, 0>>, <<UNIT, 0, -UNIT>>}

CameraInit ==
    /\ camera \in {CameraFromEye(e) : e \in CameraEyes}
                    \cup {from_spherical(<<0, 0, 0>>, a[1], a[2], a[3]) : a \in SphericalArgs}
    /\ q = [calls |-> 0, last |-> "new"]
    /\ pc = "camera"
    /\ objects = <<>>
    /\ accel = NoDda
    /\ dda = NoDda
    /\ light = LightDirectional
    /\ builder = BuildStateNew
    /\ workers = NoWorkers
    /\ rend = NoRend
    /\ fb = FramebufferNew(1, 1)
    /\ stack = NoStack

Called(name) ==
    /\ pc = "camera"
    /\ q.calls < MaxCalls
    /\ q' = [calls |-> q.calls + 1, last |-> name]
    /\ UNCHANGED <<objects, accel, light, builder, dda, pc, workers, rend, fb, stack>>

CameraOrbit ==
    /\ \E dy \in DeltaYaws, dp \in DeltaPitches : camera' = orbit(camera, dy, dp)
    /\ Called("orbit")

CameraZoom ==
    /\ \E amount \in ZoomAmounts : camera' = zoom(camera, amount)
    /\ Called("zoom")

CameraZoomExp ==
    /\ \E amount \in ZoomExpAmounts : camera' = zoom_exp(camera, amount)
    /\ Called("zoom_exp")

CameraSetCenter ==
    /\ \E c \in Centers : camera' = set_center(camera, c)
    /\ Called("set_center")

CameraSetConfig ==
    /\ \E cfg \in CameraConfigs : camera' = set_config(camera, cfg)
    /\ Called("set_config")

CameraNext ==
    \/ CameraOrbit
    \/ CameraZoom
    \/ CameraZoomExp
    \/ CameraSetCenter
    \/ CameraSetConfig

SpecCamera == CameraInit /\ [][CameraNext]_vars

\* C16: after Camera construction and after every Camera::orbit call with any
\* delta_yaw, the camera's yaw lies in [-pi, pi].
C16_YawWithinPi ==
    q.last \in {"new", "orbit"} => (camera.yaw >= -PI_MILLI /\ camera.yaw <= PI_MILLI)

\* The same after orbit calls only, on a camera built by Camera::new
YawWithinPiAfterSmallOrbit ==
    [][(CameraOrbit /\ camera.yaw >= -PI_MILLI /\ camera.yaw <= PI_MILLI
            /\ \E dp \in DeltaPitches, dy \in {-ROTATION_SPEED, ROTATION_SPEED} :
                  camera' = orbit(camera, dy, dp))
        => (camera'.yaw >= -PI_MILLI /\ camera'.yaw <= PI_MILLI)]_vars

\* C17: after construction and after any sequence of orbit, zoom, zoom_exp,
\* set_center and set_config calls (with min <= max in the config), the
\* camera's pitch lies in [min_pitch, max_pitch] and its distance lies in
\* [min_distance, max_distance] of the current config.
C17_PitchAndDistanceClamped ==
    /\ camera.pitch >= camera.config.min_pitch
    /\ camera.pitch <= camera.config.max_pitch
    /\ camera.distance >= camera.config.min_distance
    /\ camera.distance <= camera.config.max_distance

\* A narrower config has just been set on a camera that was outside it
C17_Witness ==
    /\ pc = "camera"
    /\ q = [calls |-> MaxCalls, last |-> "set_config"]
    /\ camera.config.max_distance = 20 * UNIT
    /\ camera.distance = 20 * UNIT
    /\ camera.pitch = camera.config.min_pitch
    /\ camera.center # <<0, 0, 0>>

-----------------------------------------------------------------------------
(* The hovered object (main.rs 567-574, 603 and cast_ray 138-149), under Spec *)

\* 0-based indices of the scene objects whose own intersection with the pick ray
\* is the closest hit the pick returned
HitObjects(objs, ray, hit) ==
    {i \in 0..(Len(objs) - 1) :
        /\ ray_intersect(objs[i + 1], ray[1], ray[2]).is_intersecting
        /\ ray_intersect(objs[i + 1], ray[1], ray[2]).distance = hit.distance}

\* C21: when the pointer's pick ray hits a scene object, that object's index is
\* passed to render as the hovered index (the closest-hit record's object index
\* equals the hit object's index in the scene vector), so that the rays of the
\* frame that hit this object are shaded with the preview material.
C21_HoveredIndexIsHitObject ==
    (pc = "edit" /\ q.hit.is_intersecting)
        => /\ q.hit.object_index.some
           /\ q.preview.some
           /\ q.preview.val.hovered_idx \in HitObjects(objects, q.ray, q.hit)

\* What the code does instead: the record of a pick never names an object and
\* no preview is handed to render
PickNeverNamesAnObject ==
    pc = "edit" => (~q.hit.object_index.some /\ ~q.preview.some)

-----------------------------------------------------------------------------
(* SpecLight: the light under a sequence of key events (main.rs 528-548).   *)

MaxKeyEvents == 3      \* key events in a sequence

KindKeys == {"KEY_ONE", "KEY_TWO"}
RotateKeys == {"KEY_J", "KEY_L", "KEY_I", "KEY_K"}
TranslateKeys == {"KEY_W", "KEY_S", "KEY_A", "KEY_D", "KEY_R", "KEY_F"}

LightInit ==
    /\ light = LightDirectional
    /\ q = [events |-> 0, key |-> "NONE"]
    /\ pc = "light"
    /\ objects = <<>>
    /\ accel = NoDda
    /\ dda = NoDda
    /\ camera = CameraNew
    /\ builder = BuildStateNew
    /\ workers = NoWorkers
    /\ rend = NoRend
    /\ fb = FramebufferNew(1, 1)
    /\ stack = NoStack

\* One loop iteration with the key down (or pressed); the events are counted
KeyEvent(key) ==
    /\ pc = "light"
    /\ q.events < MaxKeyEvents
    /\ light' = InputLight(light, key)
    /\ q' = [events |-> q.events + 1, key |-> key]
    /\ UNCHANGED <<objects, accel, camera, builder, dda, pc, workers, rend, fb, stack>>

\* Lines 528-529
LightSwitchKind == \E key \in KindKeys : KeyEvent(key)

\* Lines 535-540
LightRotate == \E key \in RotateKeys : KeyEvent(key)

\* Lines 541-548
LightTranslate == \E key \in TranslateKeys : KeyEvent(key)

LightNext ==
    \/ LightSwitchKind
    \/ LightRotate
    \/ LightTranslate

SpecLight == LightInit /\ [][LightNext]_vars

\* The light's direction, as the model keeps it
Direction(l) == <<l.yaw, l.pitch>>

\* C23: light controls are gated by light kind: translate (W/A/S/D/R/F) changes
\* the position only while the kind is Point, yaw_pitch (J/L/I/K) changes the
\* direction only while the kind is Directional, and switching kind with 1/2
\* changes only the kind, leaving position, direction, colour and intensity
\* unchanged.
C23_LightControlsGatedByKind ==
    [][ /\ light'.position # light.position
            => (q'.key \in TranslateKeys /\ light.kind = "Point")
        /\ Direction(light') # Direction(light)
            => (q'.key \in RotateKeys /\ light.kind = "Directional")
        /\ q'.key \in KindKeys
            => light' = [light EXCEPT !.kind = IF q'.key = "KEY_ONE" THEN "Point"
                                                ELSE "Directional"]
        /\ q'.key \notin KindKeys => light'.kind = light.kind
        /\ light'.color = light.color
        /\ light'.intensity = light.intensity ]_vars

\* After J, 1, W: the direction was turned while Directional and the position
\* moved while Point
C23_Witness ==
    /\ pc = "light"
    /\ q.events = 3
    /\ light.kind = "Point"
    /\ light.position = <<0, 0, -MOVE_SPEED>>
    /\ light.yaw = LightDirectional.yaw + DIR_ROT_SPEED

(* The DDA walks of trace and occluded (C26), on SpecGrid. *)

InGrid(g, cell) == \A a \in Axes : cell[a] \in 0..(g.dims[a] - 1)

\* The axes on which two cells differ
Moved(c1, c2) == {a \in Axes : c1[a] # c2[a]}

\* The walker's state between two iterations: the next cell read is in the grid,
\* the cells visited are at most dims.x + dims.y + dims.z, and a walk that left
\* the grid without an accepted hit has no hit (trace) or false (occluded)
WalkState ==
    pc = "walk" =>
        /\ dda.status = "run" => InGrid(accel, dda.cell)
        /\ dda.visited <= accel.dims[1] + accel.dims[2] + accel.dims[3]
        /\ (dda.status = "done" /\ dda.visited > 0 /\ ~InGrid(accel, dda.cell))
              => /\ ~dda.occluded
                 /\ ~IsFinite(dda.best_t) => dda.best = IntersectEmpty

\* One iteration: one more cell is visited, and an advance moves the cell by
\* one along one axis, whose direction component is not zero
WalkStep ==
    (pc = "walk" /\ dda.status = "run" /\ dda' # dda) =>
        /\ dda'.visited = dda.visited + 1
        /\ Moved(dda.cell, dda'.cell) = {} => dda'.t_enter = dda.t_enter
        /\ Cardinality(Moved(dda.cell, dda'.cell)) <= 1
        /\ dda'.status = "run" => Cardinality(Moved(dda.cell, dda'.cell)) = 1
        /\ \A a \in Moved(dda.cell, dda'.cell) :
              /\ q.rd[a] # 0
              /\ dda'.cell[a] = dda.cell[a] + Sgn(q.rd[a])

\* C26: for every non-empty scene and every ray, including rays with one, two or
\* three zero direction components, the DDA loops of trace and occluded
\* terminate after visiting at most dims.x + dims.y + dims.z cells, never read a
\* cell index outside [0, dims) on any axis, never step along an axis whose
\* direction component is zero, and a walk that leaves the grid without an
\* accepted hit returns no-hit (trace) or false (occluded).
C26_DdaWalkBounded == [](WalkState) /\ [][WalkStep]_vars

\* A walk along an axis that visited three cells and left the grid, and a walk
\* of the zero direction
C26_Witness ==
    /\ pc = "walk"
    /\ dda.status = "done"
    /\ Cardinality({a \in Axes : q.rd[a] = 0}) >= 2
    /\ dda.visited >= 2
    /\ ~InGrid(accel, dda.cell)
    /\ ~dda.best.is_intersecting

----------------------------------------------------------------------------
\* BuildState with its options list: new, current_block_char, next and prev
\* (build.rs 47-92), driven by the Q and E keys (main.rs 551-552)

MaxOptions == 3
MaxSelectorCalls == 4

OptionChars == {"X", "D", "L"}

\* The options lists, the empty one among them
OptionLists ==
    UNION {[1..n -> OptionChars] : n \in 0..MaxOptions}

\* Variant of prev that stops at the first option
PrevNoWrap(b) ==
    IF b.options # <<>>
    THEN LET s == IF b.sel_idx = 0 THEN 0 ELSE b.sel_idx - 1
         IN  [b EXCEPT !.sel_idx = s,
                       !.current_char = IF s < Len(b.options) THEN b.options[s + 1] ELSE "X"]
    ELSE b

\* BuildState::new, lines 48-60
BuildStateOf(options) ==
    [options |-> options,
     sel_idx |-> 0,
     current_char |-> IF Len(options) > 0 THEN options[1] ELSE "X"]

\* BuildState::current_block_char, lines 75-77
CurrentBlockChar(b) ==
    IF b.sel_idx < Len(b.options) THEN b.options[b.sel_idx + 1] ELSE "X"

\* BuildState::next, lines 79-84
BuildStateNext(b) ==
    IF b.options # <<>>
    THEN LET moved == [b EXCEPT !.sel_idx = (b.sel_idx + 1) % Len(b.options)]
         IN  [moved EXCEPT !.current_char = CurrentBlockChar(moved)]
    ELSE b

\* BuildState::prev, lines 86-92
BuildStatePrev(b) ==
    IF b.options # <<>>
    THEN LET moved == [b EXCEPT !.sel_idx = IF b.sel_idx = 0 THEN Len(b.options) - 1
                                            ELSE b.sel_idx - 1]
         IN  [moved EXCEPT !.current_char = CurrentBlockChar(moved)]
    ELSE b

\* q remembers the last two calls and the states they started from, and the
\* run of consecutive next calls with the state the run started from
SelectorInit ==
    /\ \E options \in OptionLists : builder = BuildStateOf(options)
    /\ q = [calls |-> 0, op |-> "none", op2 |-> "none",
            before |-> builder, before2 |-> builder,
            run |-> 0, run_start |-> builder]
    /\ pc = "selector"
    /\ objects = <<>>
    /\ accel = NoDda
    /\ dda = NoDda
    /\ camera = CameraNew
    /\ light = LightDirectional
    /\ workers = NoWorkers
    /\ rend = NoRend
    /\ fb = FramebufferNew(1, 1)
    /\ stack = NoStack

\* main.rs 552: KEY_E
SelectNext ==
    /\ pc = "selector"
    /\ q.calls < MaxSelectorCalls
    /\ builder' = BuildStateNext(builder)
    /\ q' = [calls |-> q.calls + 1, op |-> "next", op2 |-> q.op,
             before |-> builder, before2 |-> q.before,
             run |-> q.run + 1,
             run_start |-> IF q.run = 0 THEN builder ELSE q.run_start]
    /\ UNCHANGED <<objects, accel, camera, light, dda, pc, workers, rend, fb, stack>>

\* main.rs 551: KEY_Q
SelectPrev ==
    /\ pc = "selector"
    /\ q.calls < MaxSelectorCalls
    /\ builder' = BuildStatePrev(builder)
    /\ q' = [calls |-> q.calls + 1, op |-> "prev", op2 |-> q.op,
             before |-> builder, before2 |-> q.before,
             run |-> 0, run_start |-> q.run_start]
    /\ UNCHANGED <<objects, accel, camera, light, dda, pc, workers, rend, fb, stack>>

SelectorNext ==
    \/ SelectNext
    \/ SelectPrev

SpecSelector == SelectorInit /\ [][SelectorNext]_vars

\* C28: after any sequence of next and prev calls on a non-empty options list
\* sel_idx < options.len() and current_char = options[sel_idx]; next then prev,
\* and prev then next, restore the selection; options.len() consecutive next
\* calls return to the selection they started from; on an empty list both
\* calls change nothing
C28_SelectorCyclesOverOptions ==
    pc = "selector" =>
        /\ builder.options # <<>> =>
              /\ builder.sel_idx < Len(builder.options)
              /\ builder.current_char = builder.options[builder.sel_idx + 1]
        /\ <<q.op2, q.op>> \in {<<"next", "prev">>, <<"prev", "next">>} =>
              builder = q.before2
        /\ (q.run > 0 /\ q.run = Len(builder.options)) => builder = q.run_start
        /\ builder.options = <<>> => builder = BuildStateOf(<<>>)

\* prev from the first of three different options wrapped to the last one, and
\* three next calls then went once round the list
C28_Witness ==
    /\ pc = "selector"
    /\ Len(builder.options) = 3
    /\ Cardinality({builder.options[i] : i \in 1..3}) = 3
    /\ q.calls = 4
    /\ q.run = 3
    /\ q.run_start.sel_idx = 2
    /\ builder.sel_idx = 2
    /\ builder.current_char = builder.options[3]

----------------------------------------------------------------------------
\* Left-click placements and the interiors of the scene's boxes

\* Two boxes share interior points
InteriorsOverlap(a, b) ==
    \A x \in Axes : a.min[x] < b.max[x] /\ b.min[x] < a.max[x]

\* C29: the objects of the scene have pairwise non-overlapping interiors, in the
\* loaded scene and after every left-click placement
C29_PlacementKeepsInteriorsDisjoint ==
    \A i, j \in 1..Len(objects) :
        i < j => ~InteriorsOverlap(objects[i], objects[j])

\* The loaded scenes do have pairwise non-overlapping interiors
LoadedInteriorsDisjoint ==
    \A objs \in LoadedScenes : \A i, j \in 1..Len(objs) :
        i < j => ~InteriorsOverlap(objs[i], objs[j])

----------------------------------------------------------------------------
\* The left click of a frame and the scene vector

\* A cube of the builder's size, not a slab
IsBlock(o) ==
    /\ DOMAIN o = {"min", "max", "material", "face_textures"}
    /\ \A a \in Axes : o.max[a] - o.min[a] = CubeSize[a]

\* The frame's left click finds a hit and a template for the selected character
ClickPlaces ==
    /\ q.hit.is_intersecting
    /\ palette_get(current_block_char(builder)).some

\* The step appends one cube and keeps the objects before it
AppendsOneCube ==
    /\ Len(objects') = Len(objects) + 1
    /\ SubSeq(objects', 1, Len(objects)) = objects
    /\ IsBlock(objects'[Len(objects')])

\* The edit step of a frame in which the left button was pressed
LeftClickStep ==
    (pc = "edit" /\ pc' = "clear" /\ q.left) =>
        IF ClickPlaces THEN AppendsOneCube
        ELSE objects' = objects /\ accel' = accel

\* C30: a left click appends exactly one cube at the end of the scene vector,
\* keeping the objects before it, when the pick ray hits an object and the
\* selected character has a template; otherwise it leaves the scene vector and
\* the grid unchanged
C30_LeftClickAppendsOrKeeps == [][LeftClickStep]_vars

\* After a frame with a left click on a hit: one more object than at the pick,
\* the last one a cube with the selected character's material
C30_Witness ==
    /\ pc = "clear"
    /\ q.left
    /\ q.hit.is_intersecting
    /\ q.scene_len >= 1
    /\ Len(objects) = q.scene_len + 1
    /\ IsBlock(objects[Len(objects)])
    /\ objects[Len(objects)].material = palette_get(current_block_char(builder)).tpl.material

=============================================================================
